---------------------------- MODULE Spec2Model ----------------------------
(***************************************************************************)
(* A model of the EDSS/JDSS documentation MCP server.                      *)
(*                                                                         *)
(* Two server variants live in the repository: the main server             *)
(* (src/index.js, seven tools, link discovery with a TTL cache) and the    *)
(* globally installed server (src/unnamed/part_001, five tools).  Where    *)
(* both define a function of the same name, the definitions that model     *)
(* the globally installed server carry the prefix G_.                      *)
(*                                                                         *)
(* Strings are TLA+ strings; a character is a string of length one, read   *)
(* with SubSeq.  Positions in this module are 1-based, JavaScript indices  *)
(* are 0-based: a JavaScript index i is position i + 1 here, and values    *)
(* handed back to a caller (match.index, lastIndex) are converted.         *)
(***************************************************************************)
EXTENDS Integers, Sequences, FiniteSets, TLC

VARIABLES
    now,             \* Date.now(), in milliseconds since the server started
    discoveredLinks, \* this.discoveredLinks: the cached registry, or null
    lastDiscovery,   \* this.lastDiscovery: the time of the cached discovery, or null
    calls,           \* the tool invocations in flight or answered, one per request slot
    ticks,           \* how many times the clock has advanced (bounds the model)
    site,            \* the documentation host: the registry each of its index pages parses to
    input,           \* the input of a pure function under check
    output           \* what the function returned for it

vars == <<now, discoveredLinks, lastDiscovery, calls, ticks, site, input, output>>

\* A JavaScript value that may be null or undefined: None, or Some(v).
None == [some |-> FALSE]

Some(v) == [some |-> TRUE, val |-> v]

-----------------------------------------------------------------------------
(* JavaScript string primitives *)

At(s, i) == SubSeq(s, i, i)

Min(S) == CHOOSE x \in S : \A y \in S : x <= y

Max(S) == CHOOSE x \in S : \A y \in S : x >= y

UpperLetters == "ABCDEFGHIJKLMNOPQRSTUVWXYZ"

LowerLetters == "abcdefghijklmnopqrstuvwxyz"

Digits == "0123456789"

CharsOf(s) == { At(s, i) : i \in 1..Len(s) }

LowerMap == [c \in CharsOf(UpperLetters) |->
                At(LowerLetters, CHOOSE i \in 1..26 : At(UpperLetters, i) = c)]

LowerChar(c) == IF c \in DOMAIN LowerMap THEN LowerMap[c] ELSE c

UpperMap == [c \in CharsOf(LowerLetters) |->
                At(UpperLetters, CHOOSE i \in 1..26 : At(LowerLetters, i) = c)]

UpperChar(c) == IF c \in DOMAIN UpperMap THEN UpperMap[c] ELSE c

\* s.toLowerCase(), character by character (the string is halved rather than
\* walked, which keeps the evaluation shallow on long documents).
RECURSIVE toLowerCase(_)
toLowerCase(s) ==
    IF Len(s) = 0 THEN ""
    ELSE IF Len(s) = 1 THEN LowerChar(s)
    ELSE LET h == Len(s) \div 2
         IN  toLowerCase(SubSeq(s, 1, h)) \o toLowerCase(SubSeq(s, h + 1, Len(s)))

RECURSIVE toUpperCase(_)
toUpperCase(s) ==
    IF Len(s) = 0 THEN ""
    ELSE IF Len(s) = 1 THEN UpperChar(s)
    ELSE LET h == Len(s) \div 2
         IN  toUpperCase(SubSeq(s, 1, h)) \o toUpperCase(SubSeq(s, h + 1, Len(s)))

startsWith(s, p) == Len(s) >= Len(p) /\ SubSeq(s, 1, Len(p)) = p

endsWith(s, p) == Len(s) >= Len(p) /\ SubSeq(s, Len(s) - Len(p) + 1, Len(s)) = p

\* s.includes(p)
includes(s, p) ==
    \E i \in 1..(Len(s) - Len(p) + 1) : SubSeq(s, i, i + Len(p) - 1) = p

\* s.slice(1): the string without its first character
slice1(s) == IF s = "" THEN "" ELSE Tail(s)

\* s.substring(a, b) for JavaScript indices 0 <= a <= b <= s.length
substring(s, a, b) == SubSeq(s, a + 1, b)

\* The white space of JavaScript's \s and of String.prototype.trim that the
\* model's texts can hold.
WhiteSpace == {" ", "\t", "\n", "\r", "\f"}

trim(s) ==
    LET keep == { i \in 1..Len(s) : At(s, i) \notin WhiteSpace }
    IN  IF keep = {} THEN "" ELSE SubSeq(s, Min(keep), Max(keep))

\* The elements of a set of integers, ascending.
Ascending(S) ==
    [k \in 1..Cardinality(S) |->
        CHOOSE x \in S : Cardinality({ y \in S : y < x }) = k - 1]

\* The least k with 2^k > n: a loop that runs at most n times is unrolled as
\* k nested doublings, so that evaluating it nests k deep rather than n deep.
\* The state half-way is computed once.
Doublings(n) == CHOOSE k \in 0..30 : 2^k > n /\ (k = 0 \/ 2^(k - 1) <= n)

\* s.split('\n')
split(s) ==
    LET nl == Ascending({ i \in 1..Len(s) : At(s, i) = "\n" })
        n  == Len(nl)
        from(k) == IF k = 1 THEN 1 ELSE nl[k - 1] + 1
        to(k)   == IF k = n + 1 THEN Len(s) ELSE nl[k] - 1
    IN  [k \in 1..(n + 1) |-> SubSeq(s, from(k), to(k))]

-----------------------------------------------------------------------------
(* JavaScript regular expressions                                            *)
(*                                                                           *)
(* A compiled pattern is a sequence of nodes, matched left to right by a     *)
(* backtracking matcher that tries the alternatives in the order the         *)
(* ECMAScript matcher does (a greedy quantifier longest first, a lazy one    *)
(* shortest first, an alternation left to right).  The node kinds are the    *)
(* ones the patterns of the source use: a literal, a character class, a      *)
(* quantified character class, an alternation of literals, the two ends of   *)
(* a capture group, the end of input, the word-boundary assertion and a      *)
(* lookahead over alternative sub-patterns.                                  *)

Unbounded == -1

Node(t, str, set, neg, min, max, greedy, g, opts) ==
    [t |-> t, str |-> str, set |-> set, neg |-> neg, min |-> min, max |-> max,
     greedy |-> greedy, g |-> g, opts |-> opts]

Lit(str) == Node("lit", str, {}, FALSE, 0, 0, TRUE, 0, <<>>)

Cls(set, neg) == Node("cls", "", set, neg, 0, 0, TRUE, 0, <<>>)

Rep(set, neg, min, max, greedy) == Node("rep", "", set, neg, min, max, greedy, 0, <<>>)

Alt(opts) == Node("alt", "", {}, FALSE, 0, 0, TRUE, 0, opts)

Open(g) == Node("open", "", {}, FALSE, 0, 0, TRUE, g, <<>>)

Close(g) == Node("close", "", {}, FALSE, 0, 0, TRUE, g, <<>>)

Eos == Node("eos", "", {}, FALSE, 0, 0, TRUE, 0, <<>>)

WordBoundary == Node("wb", "", {}, FALSE, 0, 0, TRUE, 0, <<>>)

\* (?=p1|p2|...): opts holds the alternative patterns
Ahead(opts) == Node("ahead", "", {}, FALSE, 0, 0, TRUE, 0, opts)

\* \w
WordChars == CharsOf(UpperLetters) \cup CharsOf(LowerLetters) \cup CharsOf(Digits) \cup {"_"}

\* . (without the s flag)
LineTerminators == {"\n", "\r"}

\* The i flag: the pattern and the subject are compared after case folding.
\* (ECMAScript canonicalizes to upper case; on the letters A-Z and a-z, the
\* only cased characters of the model's texts, folding to lower case gives
\* the same comparisons.)
RECURSIVE FoldPattern(_)
FoldNode(n) ==
    [n EXCEPT !.str = toLowerCase(@),
              !.set = { LowerChar(c) : c \in @ },
              !.opts = [k \in DOMAIN @ |->
                          IF n.t = "ahead" THEN FoldPattern(@[k]) ELSE toLowerCase(@[k])]]

FoldPattern(re) == [k \in DOMAIN re |-> FoldNode(re[k])]

NoMatch == [ok |-> FALSE, index |-> 0, end |-> 0, caps |-> <<>>]

ClassHas(n, c) == (c \in n.set) # n.neg

\* How many characters from position p on belong to the class of node n.
RunLen(n, s, p) ==
    LET stops == { q \in p..Len(s) : ~ClassHas(n, At(s, q)) }
        run   == (IF stops = {} THEN Len(s) + 1 ELSE Min(stops)) - p
    IN  IF n.max # Unbounded /\ run > n.max THEN n.max ELSE run

IsWordAt(s, p) == p >= 1 /\ p <= Len(s) /\ At(s, p) \in WordChars

\* Backtracking tries its alternatives in an order and keeps the first that
\* matches.  The attempts are records [ord, m], m what the attempt gave: of
\* those that matched, the one of the least ord.
FirstOk(tried) ==
    IF \A a \in tried : ~a.m.ok THEN NoMatch
    ELSE (CHOOSE a \in tried : a.m.ok /\ \A b \in tried : b.m.ok => a.ord <= b.ord).m

RECURSIVE MatchFrom(_, _, _, _, _)
RECURSIVE TryCounts(_, _, _, _, _, _, _)
RECURSIVE TryOpts(_, _, _, _, _, _)

\* The pattern re from its node k on, at position p of s, with the captures
\* made so far: the first way to match in backtracking order, or NoMatch.
\* "end" is the position after the match.
MatchFrom(re, k, s, p, caps) ==
    IF k > Len(re) THEN [ok |-> TRUE, index |-> 0, end |-> p, caps |-> caps]
    ELSE LET n == re[k] IN
      CASE n.t = "lit" ->
             IF p + Len(n.str) - 1 <= Len(s) /\ SubSeq(s, p, p + Len(n.str) - 1) = n.str
             THEN MatchFrom(re, k + 1, s, p + Len(n.str), caps) ELSE NoMatch
        [] n.t = "cls" ->
             IF p <= Len(s) /\ ClassHas(n, At(s, p))
             THEN MatchFrom(re, k + 1, s, p + 1, caps) ELSE NoMatch
        [] n.t = "rep" ->
             TryCounts(re, k, s, p, caps, n.min..RunLen(n, s, p), n.greedy)
        [] n.t = "alt" -> TryOpts(re, k, s, p, caps, 1)
        [] n.t = "open" ->
             MatchFrom(re, k + 1, s, p, [caps EXCEPT ![n.g] = <<p, p>>])
        [] n.t = "close" ->
             MatchFrom(re, k + 1, s, p, [caps EXCEPT ![n.g] = <<@[1], p>>])
        [] n.t = "eos" ->
             IF p = Len(s) + 1 THEN MatchFrom(re, k + 1, s, p, caps) ELSE NoMatch
        [] n.t = "wb" ->
             IF IsWordAt(s, p - 1) # IsWordAt(s, p)
             THEN MatchFrom(re, k + 1, s, p, caps) ELSE NoMatch
        [] n.t = "ahead" ->
             IF \E j \in DOMAIN n.opts : MatchFrom(n.opts[j], 1, s, p, <<>>).ok
             THEN MatchFrom(re, k + 1, s, p, caps) ELSE NoMatch

\* The quantified class at node k consuming one of the counts of characters:
\* the first count, from the largest down when greedy and from the least up
\* when lazy, with which the rest of the pattern matches.
TryCounts(re, k, s, p, caps, counts, greedy) ==
    CHOOSE first \in
      { FirstOk(tried) :
          tried \in { { [ord |-> IF greedy THEN -c ELSE c,
                         m   |-> MatchFrom(re, k + 1, s, p + c, caps)] : c \in counts } } } : TRUE

\* The alternation at node k, from its option j on: the first option, in
\* the order written, after which the rest of the pattern matches.
TryOpts(re, k, s, p, caps, j) ==
    CHOOSE first \in
      { FirstOk(tried) :
          tried \in { { [ord |-> i,
                         m   |-> LET o == re[k].opts[i] IN
                                 IF p + Len(o) - 1 <= Len(s) /\ SubSeq(s, p, p + Len(o) - 1) = o
                                 THEN MatchFrom(re, k + 1, s, p + Len(o), caps)
                                 ELSE NoMatch] : i \in j..Len(re[k].opts) } } } : TRUE

NoCaps(re) == [g \in 1..Cardinality({k \in DOMAIN re : re[k].t = "open"}) |-> <<0, 0>>]

\* What the i flag makes of a pattern and of the text it is run on.
Pattern(re, ci) == IF ci THEN FoldPattern(re) ELSE re

Subject(s, ci) == IF ci THEN toLowerCase(s) ELSE s

\* Whether the pattern matches at position p exactly.
MatchAt(re, s, p, ci) ==
    [MatchFrom(Pattern(re, ci), 1, Subject(s, ci), p, NoCaps(re)) EXCEPT !.index = p]

\* The leftmost match of the (folded) pattern r in the (folded) text t that
\* starts at a position in lo..hi.
FirstMatch(r, t, lo, hi) ==
    CHOOSE first \in
      { FirstOk(tried) :
          tried \in { { [ord |-> q,
                         m   |-> [MatchFrom(r, 1, t, q, NoCaps(r)) EXCEPT !.index = q]]
                       : q \in lo..hi } } } : TRUE

\* The leftmost match at or after position p.  (The pattern and the text are
\* computed once for the scan.)
Search(r, t, p) ==
    CHOOSE first \in { FirstMatch(x[1], x[2], p, Len(x[2]) + 1) : x \in { <<r, t>> } } : TRUE

\* RegExpBuiltinExec without the lastIndex bookkeeping: the leftmost match at
\* or after position from.
RegExpExec(re, s, from, ci) == Search(Pattern(re, ci), Subject(s, ci), from)

\* match[0] and match[g]
Matched(s, m) == SubSeq(s, m.index, m.end - 1)

Group(s, m, g) == SubSeq(s, m.caps[g][1], m.caps[g][2] - 1)

\* One turn of the loop of String.prototype.match with a g pattern: the next
\* match from st.from on is kept; after an empty match the scan moves on by
\* one character.
MatchAllStep(r, t, st) ==
    LET m == IF st.from > Len(t) + 1 THEN NoMatch ELSE Search(r, t, st.from) IN
    IF ~m.ok THEN [st EXCEPT !.done = TRUE]
    ELSE [done |-> FALSE, from |-> IF m.end = m.index THEN m.end + 1 ELSE m.end,
          found |-> Append(st.found, m)]

RECURSIVE MatchAllLoop(_, _, _, _)
MatchAllLoop(r, t, st, k) ==
    IF st.done THEN st
    ELSE IF k = 0 THEN MatchAllStep(r, t, st)
    ELSE CHOOSE fin \in { MatchAllLoop(r, t, halfway, k - 1) :
                          halfway \in { MatchAllLoop(r, t, st, k - 1) } } : TRUE

\* s.match(re) for a pattern with the g flag: the matched texts in order
\* (the empty sequence where JavaScript gives null).
MatchAll(re, s, ci) ==
    LET found == MatchAllLoop(Pattern(re, ci), Subject(s, ci),
                              [done |-> FALSE, from |-> 1, found |-> <<>>],
                              Doublings(Len(s) + 1)).found
    IN  [k \in DOMAIN found |-> Matched(s, found[k])]

\* A list that keeps every value, equal ones too.
Unique_Kept(seq) == seq

\* [...new Set(seq)]: the first occurrence of each value, in order
Unique(seq) ==
    LET firsts == { i \in DOMAIN seq : \A j \in 1..(i - 1) : seq[j] # seq[i] }
        order  == Ascending(firsts)
    IN  [k \in DOMAIN order |-> seq[order[k]]]

-----------------------------------------------------------------------------
(* Link discovery: the registry and the index-page parser (src/index.js)     *)

\* this.baseUrl
baseUrl == "http://dh.lan:777/"

\* this.cacheTimeout, in milliseconds
cacheTimeout == 10 * 60 * 1000

\* this.legacyDocUrls
legacyDocUrls ==
    [latest    |-> "http://dh.lan:777/docs/EDSS/JEFFERSONVILLE/documentation/v4/",
     trunk     |-> "http://dh.lan:777/docs/EDSS/trunk/documentation/v4/",
     latestZip |-> "http://dh.lan:777/docs/EDSS/JEFFERSONVILLE/documentation/v4/get_doc.php?t=zip"]

\* A registry is a JavaScript object: its properties in insertion order, as a
\* sequence of [key, val].  Assigning to a key it holds replaces the value
\* in place; assigning to a new key appends.
EmptyLinks == <<>>

Keys(links) == { links[i].key : i \in DOMAIN links }

KeyOrder(links) == [i \in DOMAIN links |-> links[i].key]

Get(links, key) == links[CHOOSE i \in DOMAIN links : links[i].key = key].val

Put(links, key, val) ==
    IF key \in Keys(links)
    THEN [i \in DOMAIN links |->
            IF links[i].key = key THEN [key |-> key, val |-> val] ELSE links[i]]
    ELSE Append(links, [key |-> key, val |-> val])

\* /<a[^>]+href="([^"]*docs\/EDSS[^"]*documentation\/v[34][^"]*?)"[^>]*>([^<]*)<\/a>/gi
linkRegex ==
    << Lit("<a"), Rep({">"}, TRUE, 1, Unbounded, TRUE), Lit("href=\""),
       Open(1),
       Rep({"\""}, TRUE, 0, Unbounded, TRUE), Lit("docs/EDSS"),
       Rep({"\""}, TRUE, 0, Unbounded, TRUE), Lit("documentation/v"),
       Cls({"3", "4"}, FALSE), Rep({"\""}, TRUE, 0, Unbounded, FALSE),
       Close(1),
       Lit("\""), Rep({">"}, TRUE, 0, Unbounded, TRUE), Lit(">"),
       Open(2), Rep({"<"}, TRUE, 0, Unbounded, TRUE), Close(2),
       Lit("</a>") >>

\* /docs\/EDSS\/([^\/]+)\/documentation\/(v[34])\/?$/
urlRegex ==
    << Lit("docs/EDSS/"),
       Open(1), Rep({"/"}, TRUE, 1, Unbounded, TRUE), Close(1),
       Lit("/documentation/"),
       Open(2), Lit("v"), Cls({"3", "4"}, FALSE), Close(2),
       Rep({"/"}, FALSE, 0, 1, TRUE), Eos >>

zipSuffix == "get_doc.php?t=zip"

\* A descriptor whose zipUrl is built without the check for a closing slash.
LinkEntry_NoSeparator(url, linkText, release, apiVersion) ==
    LET fullUrl == IF startsWith(url, "http") THEN url
                   ELSE baseUrl \o (IF startsWith(url, "/") THEN slice1(url) ELSE url)
    IN  [url |-> fullUrl, zipUrl |-> fullUrl \o zipSuffix, release |-> release,
         apiVersion |-> apiVersion, linkText |-> linkText, discovered |-> TRUE]

\* The descriptor parseDocumentationLinks builds for one matching link.
LinkEntry(url, linkText, release, apiVersion) ==
    LET fullUrl == IF startsWith(url, "http") THEN url
                   ELSE baseUrl \o (IF startsWith(url, "/") THEN slice1(url) ELSE url)
        zipUrl  == fullUrl \o (IF endsWith(fullUrl, "/") THEN "" ELSE "/") \o zipSuffix
    IN  [url |-> fullUrl, zipUrl |-> zipUrl, release |-> release,
         apiVersion |-> apiVersion, linkText |-> linkText, discovered |-> TRUE]

\* const key = `${release.toLowerCase()}_${apiVersion}`
LinkKey_AsWritten(release, apiVersion) == release \o "_" \o apiVersion

LinkKey(release, apiVersion) == toLowerCase(release) \o "_" \o apiVersion

\* if (release !== 'trunk'): the releases that also become latest_<apiVersion>
IsAliased_Always(release) == TRUE

IsAliased(release) == release # "trunk"

\* The body of the while loop for one match of linkRegex.
AddLink(links, html, match) ==
    LET url      == Group(html, match, 1)
        linkText == trim(Group(html, match, 2))
        urlMatch == RegExpExec(urlRegex, url, 1, FALSE)
    IN  IF ~urlMatch.ok THEN links
        ELSE LET release    == Group(url, urlMatch, 1)
                 apiVersion == Group(url, urlMatch, 2)
                 key        == LinkKey(release, apiVersion)
                 entry      == LinkEntry(url, linkText, release, apiVersion)
                 stored     == Put(links, key, entry)
             IN  IF IsAliased(release)
                 THEN Put(stored, "latest_" \o apiVersion, entry)
                 ELSE stored

\* One turn of while ((match = linkRegex.exec(html)) !== null): r and t are
\* the pattern and the page under the i flag, st.from the position
\* linkRegex.lastIndex, st.links the registry built so far.
ParseStep(html, r, t, st) ==
    LET match == Search(r, t, st.from) IN
    IF ~match.ok THEN [st EXCEPT !.done = TRUE]
    ELSE [done |-> FALSE, from |-> match.end, links |-> AddLink(st.links, html, match)]

\* At most 2^k turns of the loop.
RECURSIVE ParseLoop(_, _, _, _, _)
ParseLoop(html, r, t, st, k) ==
    IF st.done THEN st
    ELSE IF k = 0 THEN ParseStep(html, r, t, st)
    ELSE CHOOSE fin \in { ParseLoop(html, r, t, halfway, k - 1) :
                          halfway \in { ParseLoop(html, r, t, st, k - 1) } } : TRUE

parseDocumentationLinks(html) ==
    ParseLoop(html, Pattern(linkRegex, TRUE), Subject(html, TRUE),
              [done |-> FALSE, from |-> 1, links |-> EmptyLinks],
              Doublings(Len(html) + 1)).links

\* A legacy registry that holds the latest release only.
buildLegacyLinks_LatestOnly ==
    << [key |-> "latest_v4",
        val |-> [url |-> legacyDocUrls.latest, zipUrl |-> legacyDocUrls.latestZip,
                 release |-> "JEFFERSONVILLE", apiVersion |-> "v4",
                 linkText |-> "Legacy Latest", discovered |-> FALSE]] >>

buildLegacyLinks ==
    << [key |-> "latest_v4",
        val |-> [url |-> legacyDocUrls.latest, zipUrl |-> legacyDocUrls.latestZip,
                 release |-> "JEFFERSONVILLE", apiVersion |-> "v4",
                 linkText |-> "Legacy Latest", discovered |-> FALSE]],
       [key |-> "trunk_v4",
        val |-> [url |-> legacyDocUrls.trunk,
                 zipUrl |-> legacyDocUrls.trunk \o "get_doc.php?t=zip",
                 release |-> "trunk", apiVersion |-> "v4",
                 linkText |-> "Legacy Trunk", discovered |-> FALSE]] >>

-----------------------------------------------------------------------------
(* new RegExp(pattern): the pattern syntax the searches can meet             *)
(*                                                                           *)
(* The queries of the model are written with the characters a, b, c, . and   *)
(* *, and the globally installed server puts backslashes in them, so the     *)
(* patterns handed to new RegExp are strings over a b c . * \.  Compile      *)
(* parses exactly these (ECMAScript's grammar with the Annex B extensions    *)
(* of a pattern without the u flag):                                         *)
(*   a b c   match themselves            .     any character but \n, \r      *)
(*   x*      zero or more x, greedy; a * with nothing before it to repeat    *)
(*           is a SyntaxError                                                *)
(*   \b      the word-boundary assertion (not quantifiable)                  *)
(*   \a \\ \. \*   identity escapes: the character itself                    *)
(*   \cX     X a letter: the control character X mod 32, which no text of    *)
(*           the model holds; otherwise \c is a backslash followed by c      *)
(*   \       at the end of the pattern: a SyntaxError                        *)

PatternLetters == {"a", "b", "c"}

SyntaxError == [ok |-> FALSE, re |-> <<>>]

\* The atom at position i of the pattern, and the position after it:
\* kind "chr" (a character class), "assert" (\b) or "error".
AtomAt(pattern, i) ==
    LET ch   == At(pattern, i)
        next == IF i < Len(pattern) THEN At(pattern, i + 1) ELSE ""
        third == IF i + 1 < Len(pattern) THEN At(pattern, i + 2) ELSE ""
        chr(set, neg, after) == [kind |-> "chr", set |-> set, neg |-> neg, after |-> after]
    IN  CASE ch = "." -> chr(LineTerminators, TRUE, i + 1)
          [] ch = "*" -> [kind |-> "error", set |-> {}, neg |-> FALSE, after |-> i + 1]
          [] ch = "\\" /\ next = "" ->
                [kind |-> "error", set |-> {}, neg |-> FALSE, after |-> i + 1]
          [] ch = "\\" /\ next = "b" ->
                [kind |-> "assert", set |-> {}, neg |-> FALSE, after |-> i + 2]
          [] ch = "\\" /\ next = "c" /\ third \in PatternLetters -> chr({}, FALSE, i + 3)
          [] ch = "\\" /\ next = "c" -> chr({"\\"}, FALSE, i + 1)
          [] ch = "\\" -> chr({next}, FALSE, i + 2)
          [] OTHER -> chr({ch}, FALSE, i + 1)

RECURSIVE CompileFrom(_, _, _)
CompileFrom(pattern, i, re) ==
    IF i > Len(pattern) THEN [ok |-> TRUE, re |-> re]
    ELSE LET a    == AtomAt(pattern, i)
             star == a.after <= Len(pattern) /\ At(pattern, a.after) = "*"
         IN  CASE a.kind = "error" -> SyntaxError
               [] a.kind = "assert" ->
                    IF star THEN SyntaxError
                    ELSE CompileFrom(pattern, a.after, Append(re, WordBoundary))
               [] OTHER ->
                    IF star
                    THEN CompileFrom(pattern, a.after + 1,
                                     Append(re, Rep(a.set, a.neg, 0, Unbounded, TRUE)))
                    ELSE CompileFrom(pattern, a.after, Append(re, Cls(a.set, a.neg)))

Compile(pattern) == CompileFrom(pattern, 1, <<>>)

\* Several strings in one, the pieces lo..hi of a sequence in order (halved,
\* to keep the evaluation shallow).
RECURSIVE Join(_, _, _)
Join(pieces, lo, hi) ==
    IF lo > hi THEN ""
    ELSE IF lo = hi THEN pieces[lo]
    ELSE LET mid == (lo + hi) \div 2
         IN  Join(pieces, lo, mid) \o Join(pieces, mid + 1, hi)

-----------------------------------------------------------------------------
(* Search: findMatches of the globally installed server                     *)
(* (src/unnamed/part_001)                                                    *)

\* matches.length < 50
MaxMatches == 50

\* The context window on either side of a match, in characters
ContextChars == 100

\* The characters of /[.*+?^${}()|[\]\\]/
RegexMetaChars == {".", "*", "+", "?", "^", "$", "{", "}", "(", ")", "|", "[", "]", "\\"}

\* query.replace(/[.*+?^${}()|[\]\\]/g, '\\'): the replacement string '\\' is
\* one backslash, which takes the place of the metacharacter.
EscapeChar_Kept(c) == IF c \in RegexMetaChars THEN "\\" \o c ELSE c

EscapeChar(c) == IF c \in RegexMetaChars THEN "\\" ELSE c

G_escape(query) ==
    Join([i \in 1..Len(query) |-> EscapeChar(At(query, i))], 1, Len(query))

\* text.replace(/\s+/g, ' ')
collapseWhiteSpace(s) ==
    Join([i \in 1..Len(s) |->
            IF At(s, i) \notin WhiteSpace THEN At(s, i)
            ELSE IF i > 1 /\ At(s, i - 1) \in WhiteSpace THEN "" ELSE " "],
         1, Len(s))

\* The record pushed for one match; match.index is the 0-based index.
G_MatchRecord(html, query, match) ==
    LET index == match.index - 1
        start == IF index - ContextChars > 0 THEN index - ContextChars ELSE 0
        stop  == index + Len(query) + ContextChars
        end   == IF stop < Len(html) THEN stop ELSE Len(html)
    IN  [position |-> index,
         context  |-> collapseWhiteSpace(substring(html, start, end)),
         match    |-> Matched(html, match)]

\* One turn of
\*   while ((match = regex.exec(html)) !== null && matches.length < 50)
\* st.lastIndex is regex.lastIndex (0-based).  exec starts at lastIndex, fails
\* (and resets lastIndex) when there is no match from there on, and leaves
\* lastIndex at the end of the match, which for an empty match is where it was.
G_FindStep(html, query, r, t, st) ==
    LET match == IF st.lastIndex > Len(html) THEN NoMatch
                 ELSE Search(r, t, st.lastIndex + 1)
    IN  IF ~match.ok THEN [st EXCEPT !.done = TRUE, !.lastIndex = 0]
        ELSE IF Len(st.matches) >= MaxMatches
        THEN [st EXCEPT !.done = TRUE, !.lastIndex = match.end - 1]
        ELSE [done |-> FALSE, lastIndex |-> match.end - 1,
              matches |-> Append(st.matches, G_MatchRecord(html, query, match))]

RECURSIVE G_FindLoop(_, _, _, _, _, _)
G_FindLoop(html, query, r, t, st, k) ==
    IF st.done THEN st
    ELSE IF k = 0 THEN G_FindStep(html, query, r, t, st)
    ELSE CHOOSE fin \in { G_FindLoop(html, query, r, t, halfway, k - 1) :
                          halfway \in { G_FindLoop(html, query, r, t, st, k - 1) } } : TRUE

\* findMatches(html, query): [threw, matches]; threw when new RegExp raises.
G_findMatches(html, query) ==
    LET regex == Compile(G_escape(query)) IN
    IF ~regex.ok THEN [threw |-> TRUE, matches |-> <<>>]
    ELSE [threw   |-> FALSE,
          matches |-> G_FindLoop(html, query, Pattern(regex.re, TRUE), Subject(html, TRUE),
                                 [done |-> FALSE, lastIndex |-> 0, matches |-> <<>>],
                                 Doublings(Len(html) + MaxMatches + 1)).matches]

-----------------------------------------------------------------------------
(* Search: findMatches of the main server (src/index.js)                     *)

\* lines.slice(Math.max(0, index - 1), index + 2), for the 0-based index
ContextLines(lines, index) ==
    LET lo == IF index - 1 > 0 THEN index - 1 ELSE 0
        hi == IF index + 2 < Len(lines) THEN index + 2 ELSE Len(lines)
    IN  SubSeq(lines, lo + 1, hi)

\* The callback of lines.forEach for the line at position st.i (index
\* st.i - 1): regex.test(line) on the one regex object, whose lastIndex (the
\* g flag) carries over from line to line.
TestLine(lines, r, version, st) ==
    LET i     == st.i
        line  == lines[i]
        match == IF st.lastIndex > Len(line) THEN NoMatch
                 ELSE Search(r, toLowerCase(line), st.lastIndex + 1)
        next  == [st EXCEPT !.i = i + 1, !.done = (i + 1 > Len(lines))]
    IN  IF ~match.ok THEN [next EXCEPT !.lastIndex = 0]
        ELSE [next EXCEPT !.lastIndex = match.end - 1,
                          !.matches = Append(@, [version |-> version, line |-> i,
                                                 content |-> trim(line),
                                                 context |-> ContextLines(lines, i - 1)])]

\* lines.forEach: at most 2^k lines visited, in order.
RECURSIVE ForEachLine(_, _, _, _, _)
ForEachLine(lines, r, version, st, k) ==
    IF st.done THEN st
    ELSE IF k = 0 THEN TestLine(lines, r, version, st)
    ELSE CHOOSE fin \in { ForEachLine(lines, r, version, halfway, k - 1) :
                          halfway \in { ForEachLine(lines, r, version, st, k - 1) } } : TRUE

findMatches(content, query, version) ==
    LET regex == Compile(query)
        lines == split(content)
    IN  IF ~regex.ok THEN [threw |-> TRUE, matches |-> <<>>]
        ELSE [threw   |-> FALSE,
              matches |-> ForEachLine(lines, Pattern(regex.re, TRUE), version,
                                      [done |-> FALSE, i |-> 1, lastIndex |-> 0,
                                       matches |-> <<>>],
                                      Doublings(Len(lines))).matches]

-----------------------------------------------------------------------------
(* Endpoint extraction of the main server (src/index.js)                     *)

HttpMethods == <<"GET", "POST", "PUT", "DELETE", "PATCH">>

\* [\/\w\-\{\}\.]
PathChars == WordChars \cup {"/", "-", "{", "}", "."}

\* /(GET|POST|PUT|DELETE|PATCH)\s+([\/\w\-\{\}\.]+)/g
endpointRegex ==
    << Open(1), Alt(HttpMethods), Close(1),
       Rep(WhiteSpace, FALSE, 1, Unbounded, TRUE),
       Open(2), Rep(PathChars, FALSE, 1, Unbounded, TRUE), Close(2) >>

\* /<p[^>]*>(.*?)<\/p>/s
paragraphRegex ==
    << Lit("<p"), Rep({">"}, TRUE, 0, Unbounded, TRUE), Lit(">"),
       Open(1), Rep({}, TRUE, 0, Unbounded, FALSE), Close(1), Lit("</p>") >>

\* /<[^>]+>/g
tagRegex == << Lit("<"), Rep({">"}, TRUE, 1, Unbounded, TRUE), Lit(">") >>

\* /"([^"]+)"\s*:\s*"([^"]+)"/g
paramRegex ==
    << Lit("\""), Open(1), Rep({"\""}, TRUE, 1, Unbounded, TRUE), Close(1), Lit("\""),
       Rep(WhiteSpace, FALSE, 0, Unbounded, TRUE), Lit(":"),
       Rep(WhiteSpace, FALSE, 0, Unbounded, TRUE),
       Lit("\""), Open(2), Rep({"\""}, TRUE, 1, Unbounded, TRUE), Close(2), Lit("\"") >>

\* The context windows of the detailed analysis, in characters
DescriptionWindow == 200

ParameterWindow == 500

\* One turn of s.replace(/<[^>]+>/g, ''): the text up to the next tag is kept.
StripStep(s, st) ==
    LET match == Search(tagRegex, s, st.from) IN
    IF ~match.ok
    THEN [st EXCEPT !.done = TRUE, !.kept = @ \o SubSeq(s, st.from, Len(s))]
    ELSE [done |-> FALSE, from |-> match.end,
          kept |-> st.kept \o SubSeq(s, st.from, match.index - 1)]

RECURSIVE StripLoop(_, _, _)
StripLoop(s, st, k) ==
    IF st.done THEN st
    ELSE IF k = 0 THEN StripStep(s, st)
    ELSE CHOOSE fin \in { StripLoop(s, halfway, k - 1) :
                          halfway \in { StripLoop(s, st, k - 1) } } : TRUE

stripTags(s) ==
    StripLoop(s, [done |-> FALSE, from |-> 1, kept |-> ""], Doublings(Len(s) + 1)).kept

\* extractEndpointDescription(content, index), index 0-based
extractEndpointDescription(content, index) ==
    LET start         == IF index - DescriptionWindow > 0 THEN index - DescriptionWindow ELSE 0
        beforeContext == substring(content, start, index)
        descMatch     == RegExpExec(paragraphRegex, beforeContext, 1, FALSE)
    IN  IF descMatch.ok THEN trim(stripTags(Group(beforeContext, descMatch, 1))) ELSE ""

ParamStep(s, st) ==
    LET paramMatch == Search(paramRegex, s, st.from) IN
    IF ~paramMatch.ok THEN [st EXCEPT !.done = TRUE]
    ELSE [done |-> FALSE, from |-> paramMatch.end,
          parameters |-> Append(st.parameters,
                                [name |-> Group(s, paramMatch, 1),
                                 type |-> Group(s, paramMatch, 2)])]

RECURSIVE ParamLoop(_, _, _)
ParamLoop(s, st, k) ==
    IF st.done THEN st
    ELSE IF k = 0 THEN ParamStep(s, st)
    ELSE CHOOSE fin \in { ParamLoop(s, halfway, k - 1) :
                          halfway \in { ParamLoop(s, st, k - 1) } } : TRUE

\* extractParameters(content, index), index 0-based
extractParameters(content, index) ==
    LET stop         == index + ParameterWindow
        end          == IF stop < Len(content) THEN stop ELSE Len(content)
        afterContext == substring(content, index, end)
    IN  ParamLoop(afterContext, [done |-> FALSE, from |-> 1, parameters |-> <<>>],
                  Doublings(Len(afterContext) + 1)).parameters

\* The endpoint record built for one match.
EndpointRecord(content, match, detailed) ==
    IF detailed
    THEN [method      |-> Group(content, match, 1),
          path        |-> Group(content, match, 2),
          description |-> extractEndpointDescription(content, match.index - 1),
          parameters  |-> extractParameters(content, match.index - 1)]
    ELSE [method |-> Group(content, match, 1), path |-> Group(content, match, 2)]

\* The same turn with the scan resumed one character after the start of the
\* match instead of at its end.
ExtractStep_Overlapping(content, detailed, st) ==
    LET match == Search(endpointRegex, content, st.from) IN
    IF ~match.ok THEN [st EXCEPT !.done = TRUE]
    ELSE [done |-> FALSE, from |-> match.index + 1,
          endpoints |-> Append(st.endpoints, EndpointRecord(content, match, detailed)),
          spans |-> Append(st.spans, [start |-> match.index, end |-> match.end])]

\* One turn of while ((match = endpointRegex.exec(content)) !== null).
\* st.spans keeps, beside the records, where each match was found: the code
\* does not keep it, the properties of the scan are stated with it.
ExtractStep(content, detailed, st) ==
    LET match == Search(endpointRegex, content, st.from) IN
    IF ~match.ok THEN [st EXCEPT !.done = TRUE]
    ELSE [done |-> FALSE, from |-> match.end,
          endpoints |-> Append(st.endpoints, EndpointRecord(content, match, detailed)),
          spans |-> Append(st.spans, [start |-> match.index, end |-> match.end])]

RECURSIVE ExtractLoop(_, _, _, _)
ExtractLoop(content, detailed, st, k) ==
    IF st.done THEN st
    ELSE IF k = 0 THEN ExtractStep(content, detailed, st)
    ELSE CHOOSE fin \in { ExtractLoop(content, detailed, halfway, k - 1) :
                          halfway \in { ExtractLoop(content, detailed, st, k - 1) } } : TRUE

ExtractScan(content, detailed) ==
    ExtractLoop(content, detailed,
                [done |-> FALSE, from |-> 1, endpoints |-> <<>>, spans |-> <<>>],
                Doublings(Len(content) + 1))

extractEndpoints(content, detailed) == ExtractScan(content, detailed).endpoints

-----------------------------------------------------------------------------
(* Sections, comparison and the analysis of the globally installed server    *)

\* What a section name contributes to the pattern built around it.  The
\* section names of the model are words, which stand for themselves, and the
\* single character "(", which opens a group that the pattern never closes:
\* new RegExp then raises a SyntaxError (None).
SectionAtoms(section) ==
    IF section = "(" THEN None ELSE Some(<< Lit(section) >>)

HeadingLevels == {"1", "2", "3", "4", "5", "6"}

\* new RegExp(`<h[1-6][^>]*>${section}.*?</h[1-6]>.*?(?=<h[1-6]|$)`, 'is')
sectionRegex(atoms) ==
    << Lit("<h"), Cls(HeadingLevels, FALSE), Rep({">"}, TRUE, 0, Unbounded, TRUE), Lit(">") >>
    \o atoms \o
    << Rep({}, TRUE, 0, Unbounded, FALSE), Lit("</h"), Cls(HeadingLevels, FALSE), Lit(">"),
       Rep({}, TRUE, 0, Unbounded, FALSE),
       Ahead(<< << Lit("<h"), Cls(HeadingLevels, FALSE) >>, << Eos >> >>) >>

\* extractSection(content, section) of the main server: [threw, text]
extractSection(content, section) ==
    LET atoms == SectionAtoms(section) IN
    IF ~atoms.some THEN [threw |-> TRUE, text |-> ""]
    ELSE LET match == RegExpExec(sectionRegex(atoms.val), content, 1, TRUE)
         IN  [threw |-> FALSE,
              text  |-> IF match.ok THEN Matched(content, match)
                        ELSE "Section \"" \o section \o "\" not found"]

\* new RegExp(`<.*?>${sectionName}.*?</.*?>([\\s\\S]*?)(?=<.*?>.*?</.*?>|$)`, 'i')
G_sectionRegex(atoms) ==
    LET dots == Rep(LineTerminators, TRUE, 0, Unbounded, FALSE) IN
    << Lit("<"), dots, Lit(">") >>
    \o atoms \o
    << dots, Lit("</"), dots, Lit(">"),
       Open(1), Rep({}, TRUE, 0, Unbounded, FALSE), Close(1),
       Ahead(<< << Lit("<"), dots, Lit(">"), dots, Lit("</"), dots, Lit(">") >>,
                << Eos >> >>) >>

\* extractSection(html, sectionName) of the globally installed server:
\* [threw, found, text], found FALSE for null
G_extractSection(html, sectionName) ==
    LET atoms == SectionAtoms(sectionName) IN
    IF ~atoms.some THEN [threw |-> TRUE, found |-> FALSE, text |-> ""]
    ELSE LET match == RegExpExec(G_sectionRegex(atoms.val), html, 1, TRUE)
         IN  [threw |-> FALSE, found |-> match.ok,
              text  |-> IF match.ok THEN trim(Group(html, match, 1)) ELSE ""]

\* A filter that keeps every element.
Filter_All(seq, kept) == seq

\* array.filter(keep), keep given as the set of positions kept
Filter(seq, kept) ==
    LET order == Ascending(kept) IN [k \in DOMAIN order |-> seq[order[k]]]

\* compareContent(latest, trunk, focus); timestamp is the instant of
\* new Date(), in milliseconds.  A property that is not assigned is absent.
compareContent(latest, trunk, focus, timestamp) ==
    LET head == [timestamp |-> timestamp, focus |-> focus]
        summary == [latest_size     |-> Len(latest),
                    trunk_size      |-> Len(trunk),
                    size_difference |-> Len(trunk) - Len(latest),
                    identical       |-> latest = trunk]
        same(a, b) == a.method = b.method /\ a.path = b.path
        difference(latestEndpoints, trunkEndpoints) ==
            [latest_count |-> Len(latestEndpoints),
             trunk_count  |-> Len(trunkEndpoints),
             latest_only  |-> Filter(latestEndpoints,
                 { i \in DOMAIN latestEndpoints :
                     ~\E j \in DOMAIN trunkEndpoints :
                         same(trunkEndpoints[j], latestEndpoints[i]) }),
             trunk_only   |-> Filter(trunkEndpoints,
                 { i \in DOMAIN trunkEndpoints :
                     ~\E j \in DOMAIN latestEndpoints :
                         same(latestEndpoints[j], trunkEndpoints[i]) })]
        endpoints == difference(extractEndpoints(latest, FALSE),
                                extractEndpoints(trunk, FALSE))
        withSummary   == focus = "summary" \/ focus = "all"
        withEndpoints == focus = "endpoints" \/ focus = "all"
    IN  CASE withSummary /\ withEndpoints ->
               [timestamp |-> timestamp, focus |-> focus,
                summary |-> summary, endpoints |-> endpoints]
          [] withSummary /\ ~withEndpoints ->
               [timestamp |-> timestamp, focus |-> focus, summary |-> summary]
          [] ~withSummary /\ withEndpoints ->
               [timestamp |-> timestamp, focus |-> focus, endpoints |-> endpoints]
          [] OTHER -> head

\* [\w\/\-\{\}]
G_PathChars == WordChars \cup {"/", "-", "{", "}"}

\* The four patterns of extractAPIEndpoints, all with the flags gi:
\*   /\/api\/v?\d*\/[\w\/\-\{\}]+/
\*   /endpoint[:\s]+(\/[\w\/\-\{\}]+)/
\*   /url[:\s]+(\/api\/[\w\/\-\{\}]+)/
\*   /(GET|POST|PUT|DELETE|PATCH)\s+(\/[\w\/\-\{\}]+)/
G_endpointPatterns ==
    << << Lit("/api/"), Rep({"v"}, FALSE, 0, 1, TRUE),
          Rep(CharsOf(Digits), FALSE, 0, Unbounded, TRUE), Lit("/"),
          Rep(G_PathChars, FALSE, 1, Unbounded, TRUE) >>,
       << Lit("endpoint"), Rep(WhiteSpace \cup {":"}, FALSE, 1, Unbounded, TRUE),
          Open(1), Lit("/"), Rep(G_PathChars, FALSE, 1, Unbounded, TRUE), Close(1) >>,
       << Lit("url"), Rep(WhiteSpace \cup {":"}, FALSE, 1, Unbounded, TRUE),
          Open(1), Lit("/api/"), Rep(G_PathChars, FALSE, 1, Unbounded, TRUE), Close(1) >>,
       << Open(1), Alt(HttpMethods), Close(1), Rep(WhiteSpace, FALSE, 1, Unbounded, TRUE),
          Open(2), Lit("/"), Rep(G_PathChars, FALSE, 1, Unbounded, TRUE), Close(2) >> >>

\* patterns.forEach(pattern => endpoints.push(...html.match(pattern)))
RECURSIVE G_PoolMatches(_, _)
G_PoolMatches(html, k) ==
    IF k = 0 THEN <<>>
    ELSE G_PoolMatches(html, k - 1) \o MatchAll(G_endpointPatterns[k], html, TRUE)

G_extractAPIEndpoints(html) == Unique(G_PoolMatches(html, Len(G_endpointPatterns)))

\* /(GET|POST|PUT|DELETE|PATCH|HEAD|OPTIONS)/gi
G_methodPattern ==
    << Open(1), Alt(<<"GET", "POST", "PUT", "DELETE", "PATCH", "HEAD", "OPTIONS">>), Close(1) >>

G_extractHTTPMethods(html) ==
    LET matches == MatchAll(G_methodPattern, html, TRUE)
    IN  Unique([k \in DOMAIN matches |-> toUpperCase(matches[k])])

\* matches.slice(0, 20)
MaxSchemas == 20

\* /\{[\s\S]*?"[\w_]+"\s*:[\s\S]*?\}/gi
G_schemaPattern ==
    << Lit("{"), Rep({}, TRUE, 0, Unbounded, FALSE),
       Lit("\""), Rep(WordChars, FALSE, 1, Unbounded, TRUE), Lit("\""),
       Rep(WhiteSpace, FALSE, 0, Unbounded, TRUE), Lit(":"),
       Rep({}, TRUE, 0, Unbounded, FALSE), Lit("}") >>

G_extractSchemas(html) ==
    LET matches == MatchAll(G_schemaPattern, html, TRUE)
    IN  SubSeq(matches, 1, IF Len(matches) < MaxSchemas THEN Len(matches) ELSE MaxSchemas)

authKeywords == <<"authentication", "token", "api key", "bearer", "authorization", "oauth">>

G_extractAuthInfo(html) ==
    LET lower == toLowerCase(html)
        kept  == { k \in DOMAIN authKeywords : includes(lower, authKeywords[k]) }
    IN  [found |-> kept # {}, keywords |-> Filter(authKeywords, kept)]

\* String(n) for a natural number
RECURSIVE NumberText(_)
NumberText(n) ==
    IF n < 10 THEN At(Digits, n + 1)
    ELSE NumberText(n \div 10) \o At(Digits, (n % 10) + 1)

\* parseInt(s): the number written by the leading digits of s, None for NaN
RECURSIVE DigitsValue(_, _)
DigitsValue(s, n) ==
    IF n = 0 THEN 0
    ELSE 10 * DigitsValue(s, n - 1)
           + ((CHOOSE d \in 1..10 : At(Digits, d) = At(s, n)) - 1)

parseInt(s) ==
    LET t     == trim(s)
        stops == { i \in 1..Len(t) : At(t, i) \notin CharsOf(Digits) }
        n     == IF stops = {} THEN Len(t) ELSE Min(stops) - 1
    IN  IF n = 0 THEN None ELSE Some(DigitsValue(t, n))

\* Math.abs((a - b) / a * 100).toFixed(2) for lengths a, b: the quotient
\* rounded to hundredths (a half upwards); dividing by a zero length gives
\* Infinity, or NaN when both lengths are zero.
PercentageText(a, b) ==
    LET d == IF a > b THEN a - b ELSE b - a
        h == (2 * d * 10000 + a) \div (2 * a)
        c == h % 100
    IN  IF a = 0 THEN (IF b = 0 THEN "NaN" ELSE "Infinity")
        ELSE NumberText(h \div 100) \o "." \o NumberText(c \div 10) \o NumberText(c % 10)

-----------------------------------------------------------------------------
(* The index pages the model serves                                          *)
(*                                                                           *)
(* A page is described by the anchors it holds, in document order, and       *)
(* rendered to markup; the parser sees the markup only.  Beside its href     *)
(* and text as they stand in the markup, an anchor records what it is: if    *)
(* it has the documentation shape docs/EDSS/<release>/documentation/v3|v4,   *)
(* its release as written and in lower case, its API version, and the        *)
(* absolute page URL, ZIP URL and label a reader of the page would give it.  *)

Anchor(attrs, href, text, wellFormed, release, lower, apiVersion, full, zip, label) ==
    [attrs |-> attrs, href |-> href, text |-> text, wellFormed |-> wellFormed,
     release |-> release, lower |-> lower, apiVersion |-> apiVersion,
     full |-> full, zip |-> zip, label |-> label]

AcmeAnchor ==
    Anchor("", "docs/EDSS/Acme/documentation/v4/", "Acme v4", TRUE, "Acme", "acme", "v4",
           "http://dh.lan:777/docs/EDSS/Acme/documentation/v4/",
           "http://dh.lan:777/docs/EDSS/Acme/documentation/v4/get_doc.php?t=zip", "Acme v4")

AcmeLowerAnchor ==
    Anchor(" class=\"doc\"", "/docs/EDSS/acme/documentation/v4", " acme v4 ", TRUE,
           "acme", "acme", "v4",
           "http://dh.lan:777/docs/EDSS/acme/documentation/v4",
           "http://dh.lan:777/docs/EDSS/acme/documentation/v4/get_doc.php?t=zip", "acme v4")

TrunkAnchor ==
    Anchor("", "http://dh.lan:777/docs/EDSS/trunk/documentation/v4/", "trunk", TRUE,
           "trunk", "trunk", "v4",
           "http://dh.lan:777/docs/EDSS/trunk/documentation/v4/",
           "http://dh.lan:777/docs/EDSS/trunk/documentation/v4/get_doc.php?t=zip", "trunk")

BoltAnchor ==
    Anchor("", "docs/EDSS/Bolt/documentation/v3", "Bolt (v3)", TRUE, "Bolt", "bolt", "v3",
           "http://dh.lan:777/docs/EDSS/Bolt/documentation/v3",
           "http://dh.lan:777/docs/EDSS/Bolt/documentation/v3/get_doc.php?t=zip", "Bolt (v3)")

LatestAnchor ==
    Anchor("", "docs/EDSS/latest/documentation/v4/", "latest", TRUE, "latest", "latest", "v4",
           "http://dh.lan:777/docs/EDSS/latest/documentation/v4/",
           "http://dh.lan:777/docs/EDSS/latest/documentation/v4/get_doc.php?t=zip", "latest")

TrunkCapitalAnchor ==
    Anchor("", "docs/EDSS/Trunk/documentation/v3/", "Trunk", TRUE, "Trunk", "trunk", "v3",
           "http://dh.lan:777/docs/EDSS/Trunk/documentation/v3/",
           "http://dh.lan:777/docs/EDSS/Trunk/documentation/v3/get_doc.php?t=zip", "Trunk")

\* Links into the documentation tree that are not a version's root page, and
\* links elsewhere.
DeepAnchor ==
    Anchor("", "docs/EDSS/Acme/documentation/v4/index.html", "Acme index", FALSE,
           "", "", "", "", "", "")

OtherAnchor ==
    Anchor("", "downloads/tools.zip", "Tools", FALSE, "", "", "", "", "", "")

AnchorForms ==
    {AcmeAnchor, AcmeLowerAnchor, TrunkAnchor, BoltAnchor, LatestAnchor,
     TrunkCapitalAnchor, DeepAnchor, OtherAnchor}

RECURSIVE RenderAnchors(_)
RenderAnchors(anchors) ==
    IF anchors = <<>> THEN ""
    ELSE LET a == Head(anchors) IN
         "<li><a" \o a.attrs \o " href=\"" \o a.href \o "\">" \o a.text \o "</a></li>\n"
             \o RenderAnchors(Tail(anchors))

Render(anchors) ==
    "<html><body><h1>Docs</h1><ul>\n" \o RenderAnchors(anchors) \o "</ul></body></html>"

MaxAnchors == 3

PagesOf(forms, n) == UNION { [1..k -> forms] : k \in 0..n }

-----------------------------------------------------------------------------
(* The documentation host                                                    *)
(*                                                                           *)
(* A fetch ends in one of three ways: the promise rejects (a transport       *)
(* error), the server answers with a status that is not a success, or it     *)
(* answers with a body.  Reading the body is taken together with the         *)
(* arrival of the response.                                                  *)

TransportError == [kind |-> "reject", message |-> "fetch failed"]

HttpFailure == [kind |-> "status", status |-> "404", statusText |-> "Not Found"]

Failures == {TransportError, HttpFailure}

\* The index pages the host can serve.
SiteForms == {AcmeAnchor, BoltAnchor, TrunkAnchor, OtherAnchor}

MaxSiteAnchors == 1

SitePages == PagesOf(SiteForms, MaxSiteAnchors)

IndexOutcomes == Failures \cup { [kind |-> "ok", anchors |-> a] : a \in SitePages }

\* What parseDocumentationLinks makes of each page the host can serve.  The
\* variable site holds this table from the start, so that a page is parsed
\* once and not again at every response that carries it.
SiteRegistry == [a \in SitePages |-> parseDocumentationLinks(Render(a))]

\* The documentation pages the host can serve.
SiteDocs ==
    { "<h1>Volumes</h1>\nGET /api/v4/volumes\n<h2>Pools</h2>\nPOST /api/v4/pools token",
      "<h1>Volumes</h1>\nGET /api/v4/volumes {\"id\": \"int\"}" }

DocOutcomes == Failures \cup { [kind |-> "ok", body |-> d] : d \in SiteDocs }

\* An HTML file is described by its elements: the class of each, whether its
\* style holds display: none, and what its click handler does (nothing,
\* toggling the display of the element after it, or raising).  A script file
\* is described by whether running it defines window.$.
Element(cls, hidden, click) == [cls |-> cls, hidden |-> hidden, click |-> click]

Html(elements) == [kind |-> "html", elements |-> elements]

Script(defines) == [kind |-> "js", defines |-> defines]

PlainText(s) == [kind |-> "text", s |-> s]

Entry(path, dir, data) == [path |-> path, dir |-> dir, data |-> data]

MainPage ==
    Html(<< Element("toggleOperation", FALSE, "toggles"), Element("content func_doc", TRUE, "none"),
            Element("toggleOperation", FALSE, "throws"), Element("content func_src", TRUE, "none"),
            Element("toggleOperation", FALSE, "toggles"), Element("operation", TRUE, "none") >>)

OtherPage == Html(<< Element("endpoint", TRUE, "none") >>)

\* A ZIP archive: whether JSZip can load it, and its entries in archive order.
Archive(valid, files) == [valid |-> valid, files |-> files]

Archives ==
    { Archive(FALSE, <<>>),
      Archive(TRUE, << Entry("docs/", TRUE, PlainText("")),
                       Entry("readme.txt", FALSE, PlainText("read me")) >>),
      Archive(TRUE, << Entry("index.html", FALSE, MainPage) >>),
      Archive(TRUE, << Entry("index.html", FALSE, MainPage),
                       Entry("other.html", FALSE, OtherPage),
                       Entry("js/jquery.min.js", FALSE, Script(TRUE)) >>),
      Archive(TRUE, << Entry("js/jquery.min.js", FALSE, Script(TRUE)),
                       Entry("index.html", FALSE, MainPage),
                       Entry("js/jquery-ui.js", FALSE, Script(FALSE)) >>) }

ZipOutcomes == Failures \cup { [kind |-> "ok", archive |-> z] : z \in Archives }

\* The headers of the answer to a HEAD request; a header that is not sent
\* is None.
Headers(contentLength, contentType, lastModified) ==
    [contentLength |-> contentLength, contentType |-> contentType,
     lastModified |-> lastModified]

SiteHeaders ==
    { Headers(None, None, None),
      Headers(Some("2560"), Some("application/zip"), Some("Tue, 03 Nov 2026 10:00:00 GMT")) }

HeadOutcomes == Failures \cup { [kind |-> "ok", headers |-> h] : h \in SiteHeaders }

-----------------------------------------------------------------------------
(* Tool invocations                                                          *)
(*                                                                           *)
(* calls holds the invocations of the server process in the order in which    *)
(* their requests arrived.  An invocation is at the await it is suspended    *)
(* at (pc), or done.  It records the fetches it issued with their outcomes,  *)
(* the local values it carries across its awaits, the message of the error   *)
(* its handler caught, and the payload the handler returned.  escaped is set  *)
(* when an exception leaves the handler.                                     *)

NewCall(server, name, args, started) ==
    [server |-> server, name |-> name, args |-> args, started |-> started,
     pc |-> "run", fetched |-> <<>>, links |-> None, target |-> None,
     results |-> <<>>, dom |-> None, due |-> 0,
     caught |-> None, escaped |-> FALSE, result |-> None]

\* args?.field || fallback
Arg(args, field, fallback) ==
    IF args.some /\ field \in DOMAIN args.val THEN args.val[field] ELSE fallback

HasArg(args, field) == args.some /\ field \in DOMAIN args.val

\* The text of a payload: a string, the JSON text of a value, or a heading
\* followed by the content of a file.
Text(s) == [kind |-> "string", s |-> s]

Json(v) == [kind |-> "json", v |-> v]

Titled(heading, data) == [kind |-> "titled", heading |-> heading, data |-> data]

\* { content: [{ type: "text", text }] }
Payload(text) == [content |-> << [type |-> "text", text |-> text] >>]

\* The payload of the globally installed server's catch block
G_ErrorPayload(text) == [content |-> << [type |-> "text", text |-> text] >>, isError |-> TRUE]

Return(c, text) == [c EXCEPT !.pc = "done", !.result = Some(Payload(text))]

\* An exception that leaves the handler instead of being caught.
HandlerCatch_Absent(c, message) ==
    [c EXCEPT !.pc = "done", !.caught = None, !.escaped = TRUE]

\* catch (error) of the call-tool handlers: the exception an operation raised
\* becomes the text of the payload.
HandlerCatch(c, message) ==
    [c EXCEPT !.pc = "done", !.caught = Some(message),
              !.result = Some(IF c.server = "main"
                              THEN Payload(Text("Error: " \o message))
                              ELSE G_ErrorPayload(Text("Error: " \o message)))]

\* await fetch(url): the request is issued and the invocation is suspended.
Await(c, pc, url, method) ==
    [c EXCEPT !.pc = pc,
              !.fetched = Append(@, [url |-> url, method |-> method, outcome |-> None])]

\* The outcome of the k-th fetch of the invocation arrives.
Arrived(c, k, outcome) == [c EXCEPT !.fetched[k].outcome = Some(outcome)]

\* The messages of the errors the JavaScript engine raises.
InvalidRegExp == "Invalid regular expression"

CannotDestructure(field) ==
    "Cannot destructure property '" \o field \o "' of 'args' as it is undefined."

CannotRead(field) == "Cannot read properties of undefined (reading '" \o field \o "')"

ToolNames ==
    {"get_edss_documentation", "download_edss_documentation", "search_edss_documentation",
     "analyze_edss_api_endpoints", "compare_documentation_versions",
     "discover_documentation_links", "get_edss_documentation_enhanced", "no_such_tool"}

G_ToolNames ==
    {"get_edss_documentation", "download_edss_documentation", "search_edss_documentation",
     "analyze_edss_api_endpoints", "compare_documentation_versions", "no_such_tool"}

\* The argument records the model sends with each tool: None is a request
\* without arguments.
ArgsOf(name) ==
    CASE name = "discover_documentation_links" ->
           {None, Some([refresh |-> TRUE]), Some([refresh |-> FALSE])}
      [] name = "get_edss_documentation_enhanced" ->
           {None, Some([version |-> "trunk"]), Some([version |-> "Acme", apiVersion |-> "v3"]),
            Some([useJavaScript |-> FALSE]), Some([version |-> "latest", apiVersion |-> "v3"])}
      [] name = "get_edss_documentation" ->
           {None, Some([version |-> "trunk"]), Some([section |-> "Pools"]),
            Some([section |-> "("])}
      [] name = "search_edss_documentation" ->
           {None, Some([query |-> "pools"]), Some([query |-> "*"]),
            Some([query |-> "v4", version |-> "both"]), Some([version |-> "trunk"])}
      [] name = "analyze_edss_api_endpoints" ->
           {None, Some([detailed |-> TRUE]), Some([version |-> "trunk"])}
      [] name = "compare_documentation_versions" ->
           {None, Some([focus |-> "all"]), Some([focus |-> "summary"])}
      [] OTHER -> {None}

-----------------------------------------------------------------------------
(* The operations of the main server (src/index.js)                          *)
(*                                                                           *)
(* Each operation is given as what it does from where it is entered or       *)
(* resumed to its next await or its end: a function from the invocation to   *)
(* the invocation.  t is the reading of the clock at that moment.            *)

\* version === "latest" ? this.legacyDocUrls.latest : this.legacyDocUrls.trunk
DocUrl(version) == IF version = "latest" THEN legacyDocUrls.latest ELSE legacyDocUrls.trunk

\* The cache check of discoverDocumentationLinks with <= for <.
CacheFresh_Inclusive(links, last, t) ==
    links.some /\ last.some /\ last.val # 0 /\ t - last.val <= cacheTimeout

\* this.discoveredLinks && this.lastDiscovery &&
\*     (Date.now() - this.lastDiscovery) < this.cacheTimeout
CacheFresh(links, last, t) ==
    links.some /\ last.some /\ last.val # 0 /\ t - last.val < cacheTimeout

\* A discovery that gives the legacy registry for a page without links.
DiscoveryResult_LegacyWhenEmpty(outcome) ==
    IF outcome.kind = "ok" /\ site[outcome.anchors] # EmptyLinks
    THEN [links |-> site[outcome.anchors], cache |-> TRUE]
    ELSE [links |-> buildLegacyLinks, cache |-> outcome.kind = "ok"]

\* A discovery that looks at the cache again when its fetch has ended, and
\* returns what another invocation has cached meanwhile.
DiscoveryResult_RereadsCache(outcome) ==
    IF discoveredLinks.some THEN [links |-> discoveredLinks.val, cache |-> FALSE]
    ELSE IF outcome.kind = "ok"
    THEN [links |-> site[outcome.anchors], cache |-> TRUE]
    ELSE [links |-> buildLegacyLinks, cache |-> FALSE]

\* A discovery that adds the links of the page to those already cached.
DiscoveryResult_Merging(outcome) ==
    IF outcome.kind = "ok"
    THEN [links |-> (IF discoveredLinks.some THEN discoveredLinks.val ELSE EmptyLinks)
                       \o site[outcome.anchors],
          cache |-> TRUE]
    ELSE [links |-> buildLegacyLinks, cache |-> FALSE]

\* A discovery that stores the legacy registry when its fetch has failed.
DiscoveryResult_StoresLegacy(outcome) ==
    IF outcome.kind = "ok"
    THEN [links |-> site[outcome.anchors], cache |-> TRUE]
    ELSE [links |-> buildLegacyLinks, cache |-> TRUE]

\* The try block of discoverDocumentationLinks once the fetch has ended: the
\* registry it returns and whether it is stored.  site[a] is
\* parseDocumentationLinks(html) for the markup html of the page a.
DiscoveryResult(outcome) ==
    IF outcome.kind = "ok"
    THEN [links |-> site[outcome.anchors], cache |-> TRUE]
    ELSE [links |-> buildLegacyLinks, cache |-> FALSE]

\* links[key], None when the registry has no such key
Lookup(links, key) == IF key \in Keys(links) THEN Some(Get(links, key)) ELSE None

\* links[Object.keys(links).find(k => k.includes(word))]
FirstKeyIncluding(links, word) ==
    LET hits == { i \in DOMAIN links : includes(links[i].key, word) }
    IN  IF hits = {} THEN None ELSE Some(links[Min(hits)].val)

\* The descriptor getDocumentationEnhanced picks.
TargetLink(links, version, apiVersion) ==
    LET lookupKey == toLowerCase(version) \o "_" \o apiVersion
        named(word) == IF Lookup(links, word \o "_" \o apiVersion).some
                       THEN Lookup(links, word \o "_" \o apiVersion)
                       ELSE FirstKeyIncluding(links, word)
    IN  IF Lookup(links, lookupKey).some THEN Lookup(links, lookupKey)
        ELSE IF version = "latest" THEN named("latest")
        ELSE IF version = "trunk" THEN named("trunk")
        ELSE None

\* catch (error) of getDocumentationEnhanced
EnhancedCatch(c, message) ==
    Return(c, Text("Error retrieving enhanced documentation: " \o message))

\* What follows const links = await this.discoverDocumentationLinks() in
\* discoverLinks and in getDocumentationEnhanced.
AfterDiscovery(c0, links, t) ==
    LET c          == [c0 EXCEPT !.links = Some(links)]
        version    == Arg(c.args, "version", "latest")
        apiVersion == Arg(c.args, "apiVersion", "v4")
        targetLink == TargetLink(links, version, apiVersion)
    IN  IF c.name = "discover_documentation_links"
        THEN Return(c, Json([links |-> links, discoveredAt |-> t, totalFound |-> Len(links)]))
        ELSE IF ~targetLink.some
        THEN EnhancedCatch(c, "Could not find documentation for version: " \o version
                                 \o ", apiVersion: " \o apiVersion)
        ELSE Await([c EXCEPT !.target = targetLink], "zip", targetLink.val.zipUrl, "GET")

\* discoverDocumentationLinks up to its fetch, with the cache as it is when
\* the function is entered.
BeginDiscovery(c, links, last, t) ==
    IF CacheFresh(links, last, t) THEN AfterDiscovery(c, links.val, t)
    ELSE Await(c, "index", baseUrl, "GET")

\* setTimeout(..., 1000)
SettleDelay == 1000

ZipLoadError == "Can't find end of central directory : is this a zip file ?"

\* path.endsWith('.html') && !file.dir
HtmlEntries(files) ==
    { i \in DOMAIN files : endsWith(files[i].path, ".html") /\ ~files[i].dir }

\* path.includes('jquery') && path.endsWith('.js')
JQueryEntries(files) ==
    { i \in DOMAIN files : includes(files[i].path, "jquery") /\ endsWith(files[i].path, ".js") }

EnhancedHeading(c, processed) ==
    LET apiVersion == Arg(c.args, "apiVersion", "v4") IN
    IF processed
    THEN "Enhanced EDSS Documentation (" \o c.target.val.release \o " " \o apiVersion \o ")\n"
           \o "Source: " \o c.target.val.zipUrl \o "\n"
           \o "Processed with jQuery: YES\n\n"
    ELSE "EDSS Documentation (" \o c.target.val.release \o " " \o apiVersion \o ")\n"
           \o "Source: " \o c.target.val.zipUrl \o "\n\n"

\* A processZipWithJQuery for which a missing script library is an error.
processZipWithJQuery_NeedsScript(c, archive, t) ==
    LET files  == archive.files
        htmls  == HtmlEntries(files)
        jquery == JQueryEntries(files)
    IN  IF ~archive.valid
        THEN EnhancedCatch(c, "jQuery processing failed: " \o ZipLoadError)
        ELSE IF htmls = {}
        THEN EnhancedCatch(c, "jQuery processing failed: No HTML file found in ZIP")
        ELSE IF jquery = {}
        THEN EnhancedCatch(c, "jQuery processing failed: No jQuery found in ZIP")
        ELSE [c EXCEPT !.pc = "settle", !.due = t + SettleDelay,
                       !.dom = Some([scripts  |-> << files[Max(jquery)].data >>,
                                     elements |-> files[Min(htmls)].data.elements,
                                     jquery   |-> files[Max(jquery)].data.defines])]

\* processZipWithJQuery up to its timer.  mainHTML is the first HTML entry
\* (every HTML file of the model has text); jqueryCode is assigned at every
\* script entry, so that the last one stays.
processZipWithJQuery(c, archive, t) ==
    LET files  == archive.files
        htmls  == HtmlEntries(files)
        jquery == JQueryEntries(files)
    IN  IF ~archive.valid
        THEN EnhancedCatch(c, "jQuery processing failed: " \o ZipLoadError)
        ELSE IF htmls = {}
        THEN EnhancedCatch(c, "jQuery processing failed: No HTML file found in ZIP")
        ELSE IF jquery = {}
        THEN Return(c, Titled(EnhancedHeading(c, TRUE), files[Min(htmls)].data))
        ELSE [c EXCEPT !.pc = "settle", !.due = t + SettleDelay,
                       !.dom = Some([scripts  |-> << files[Max(jquery)].data >>,
                                     elements |-> files[Min(htmls)].data.elements,
                                     jquery   |-> files[Max(jquery)].data.defines])]

\* The else branch of getDocumentationEnhanced: the first HTML entry, or the
\* empty string.
standardExtraction(c, archive) ==
    LET htmls == HtmlEntries(archive.files) IN
    IF ~archive.valid THEN EnhancedCatch(c, ZipLoadError)
    ELSE Return(c, Titled(EnhancedHeading(c, FALSE),
                          IF htmls = {} THEN PlainText("")
                          ELSE archive.files[Min(htmls)].data))

\* getDocumentationEnhanced resumed by the outcome of the ZIP fetch.
EnhancedResumed(c, outcome, t) ==
    CASE outcome.kind = "reject" -> EnhancedCatch(c, outcome.message)
      [] outcome.kind = "status" ->
           EnhancedCatch(c, "Failed to download documentation: " \o outcome.status)
      [] OTHER ->
           IF Arg(c.args, "useJavaScript", TRUE)
           THEN processZipWithJQuery(c, outcome.archive, t)
           ELSE standardExtraction(c, outcome.archive)

\* An each() that is stopped by the first handler that raises.
RECURSIVE ClickToggles_StoppedByError(_, _)
ClickToggles_StoppedByError(elements, k) ==
    IF k > Len(elements) THEN elements
    ELSE IF elements[k].cls = "toggleOperation" /\ elements[k].click = "throws"
    THEN elements
    ELSE IF elements[k].cls = "toggleOperation" /\ elements[k].click = "toggles"
              /\ k < Len(elements)
    THEN ClickToggles_StoppedByError([elements EXCEPT ![k + 1].hidden = ~@], k + 1)
    ELSE ClickToggles_StoppedByError(elements, k + 1)

\* $('.toggleOperation').each(...): the toggles are clicked in document
\* order; a handler that raises is ignored.
RECURSIVE ClickToggles(_, _)
ClickToggles(elements, k) ==
    IF k > Len(elements) THEN elements
    ELSE IF elements[k].cls = "toggleOperation" /\ elements[k].click = "toggles"
              /\ k < Len(elements)
    THEN ClickToggles([elements EXCEPT ![k + 1].hidden = ~@], k + 1)
    ELSE ClickToggles(elements, k + 1)

\* revealAllContent(window): [threw, elements]
revealAllContent(dom) ==
    IF ~dom.jquery THEN [threw |-> TRUE, elements |-> dom.elements]
    ELSE [threw    |-> FALSE,
          elements |-> [k \in DOMAIN dom.elements |->
                           [ClickToggles(dom.elements, 1)[k] EXCEPT !.hidden = FALSE]]]

\* The callback of the timer, and the rest of processZipWithJQuery: an error
\* of revealAllContent is logged; document.documentElement.outerHTML holds
\* the injected script and the elements as they are now.
SettleResumed(c) ==
    Return(c, Titled(EnhancedHeading(c, TRUE),
                     [kind |-> "dom", scripts |-> c.dom.val.scripts,
                      elements |-> revealAllContent(c.dom.val).elements]))

\* getDocumentation resumed by the outcome of its fetch.
getDocumentationResumed(c, outcome) ==
    LET wrap(message) == HandlerCatch(c, "Documentation retrieval failed: " \o message)
        answer(section) == IF section.threw THEN wrap(InvalidRegExp)
                           ELSE Return(c, Text(section.text))
    IN  CASE outcome.kind = "reject" -> wrap(outcome.message)
          [] outcome.kind = "status" ->
               wrap("Failed to fetch documentation: " \o outcome.status \o " "
                      \o outcome.statusText)
          [] OTHER -> answer(IF HasArg(c.args, "section")
                             THEN extractSection(outcome.body, c.args.val.section)
                             ELSE [threw |-> FALSE, text |-> outcome.body])

downloadDocumentation(c) ==
    Return(c, Json([zipUrl      |-> legacyDocUrls.latestZip,
                    description |-> "Download complete EDSS documentation as ZIP",
                    contentType |-> "application/zip",
                    version     |-> "latest"]))

\* version === "both" ? ["latest", "trunk"] : [version]
VersionsOf(version) == IF version = "both" THEN <<"latest", "trunk">> ELSE <<version>>

\* new RegExp(query, 'gi') for the query of the request: a query that is
\* undefined gives the empty pattern.
QueryOf(args) == IF HasArg(args, "query") THEN Some(args.val.query) ELSE None

\* searchDocumentation resumed by the outcome of the fetch for one version:
\* a response that is not ok is passed over.
searchDocumentationResumed(c, outcome) ==
    LET versions == VersionsOf(Arg(c.args, "version", "latest"))
        k        == Len(c.fetched)
        query    == QueryOf(c.args)
        goOn(results) ==
            IF k < Len(versions)
            THEN Await([c EXCEPT !.results = results], "doc", DocUrl(versions[k + 1]), "GET")
            ELSE Return([c EXCEPT !.results = results],
                        Json([query |-> query, results |-> results, total |-> Len(results)]))
        push(found) ==
            IF found.threw THEN HandlerCatch(c, "Search failed: " \o InvalidRegExp)
            ELSE goOn(c.results \o found.matches)
    IN  CASE outcome.kind = "reject" -> HandlerCatch(c, "Search failed: " \o outcome.message)
          [] outcome.kind = "ok" ->
               push(findMatches(outcome.body, IF query.some THEN query.val ELSE "",
                                versions[k]))
          [] OTHER -> goOn(c.results)

\* analyzeEndpoints resumed by the outcome of its fetch.
analyzeEndpointsResumed(c, outcome) ==
    LET detailed  == Arg(c.args, "detailed", FALSE)
        answer(endpoints) ==
            Return(c, Json([version   |-> Arg(c.args, "version", "latest"),
                            endpoints |-> endpoints,
                            total     |-> Len(endpoints),
                            detailed  |-> detailed]))
    IN  CASE outcome.kind = "reject" -> HandlerCatch(c, "Analysis failed: " \o outcome.message)
          [] outcome.kind = "status" ->
               HandlerCatch(c, "Analysis failed: Failed to fetch documentation: "
                                  \o outcome.status)
          [] OTHER -> answer(extractEndpoints(outcome.body, detailed))

\* A compareVersions that compares what it has: a page that was not served
\* counts as the empty text.
compareVersionsResumed_Lenient(c, outcome, t) ==
    LET latest == c.fetched[1].outcome
        trunk  == c.fetched[2].outcome
        body(o) == IF o.kind = "ok" THEN o.body ELSE ""
    IN  IF outcome.kind = "reject"
        THEN HandlerCatch(c, "Comparison failed: " \o outcome.message)
        ELSE IF ~latest.some \/ ~trunk.some THEN c
        ELSE Return(c, Json(compareContent(body(latest.val), body(trunk.val),
                                           Arg(c.args, "focus", "summary"), t)))

\* compareVersions resumed by the outcome of one of its two fetches, which
\* has been recorded in c: Promise.all rejects with the first rejection, and
\* is fulfilled when both responses are there.
compareVersionsResumed(c, outcome, t) ==
    LET latest == c.fetched[1].outcome
        trunk  == c.fetched[2].outcome
    IN  IF outcome.kind = "reject"
        THEN HandlerCatch(c, "Comparison failed: " \o outcome.message)
        ELSE IF ~latest.some \/ ~trunk.some THEN c
        ELSE IF latest.val.kind # "ok" \/ trunk.val.kind # "ok"
        THEN HandlerCatch(c, "Comparison failed: Failed to fetch both versions")
        ELSE Return(c, Json(compareContent(latest.val.body, trunk.val.body,
                                           Arg(c.args, "focus", "summary"), t)))

\* The switch of the call-tool handler, each operation up to its first await.
\* links and last are the cache as the operation finds it.
Dispatch(c, links, last, t) ==
    CASE c.name = "get_edss_documentation" ->
           Await(c, "doc", DocUrl(Arg(c.args, "version", "latest")), "GET")
      [] c.name = "download_edss_documentation" -> downloadDocumentation(c)
      [] c.name = "search_edss_documentation" ->
           IF ~c.args.some THEN HandlerCatch(c, CannotDestructure("query"))
           ELSE Await(c, "doc",
                      DocUrl(VersionsOf(Arg(c.args, "version", "latest"))[1]), "GET")
      [] c.name = "analyze_edss_api_endpoints" ->
           IF ~c.args.some THEN HandlerCatch(c, CannotDestructure("version"))
           ELSE Await(c, "doc", DocUrl(Arg(c.args, "version", "latest")), "GET")
      [] c.name = "compare_documentation_versions" ->
           IF ~c.args.some THEN HandlerCatch(c, CannotDestructure("focus"))
           ELSE Await(Await(c, "both", legacyDocUrls.latest, "GET"),
                      "both", legacyDocUrls.trunk, "GET")
      [] c.name \in {"discover_documentation_links", "get_edss_documentation_enhanced"} ->
           BeginDiscovery(c, links, last, t)
      [] OTHER -> HandlerCatch(c, "Unknown tool: " \o c.name)

-----------------------------------------------------------------------------
(* The operations of the globally installed server (src/unnamed/part_001)    *)

\* this.docUrls
G_docUrls ==
    [latest    |-> "http://dh.lan:777/docs/EDSS/JEFFERSONVILLE/documentation/v4/",
     trunk     |-> "http://dh.lan:777/docs/EDSS/trunk/documentation/v4/",
     latestZip |-> "http://dh.lan:777/docs/EDSS/JEFFERSONVILLE/documentation/v4/get_doc.php?t=zip"]

\* version === "trunk" ? this.docUrls.trunk : this.docUrls.latest
G_DocUrl(version) == IF version = "trunk" THEN G_docUrls.trunk ELSE G_docUrls.latest

\* The message of the error getDocumentation(version) raises on a failed fetch.
G_FetchError(version, outcome) ==
    "Failed to fetch " \o version \o " documentation: "
       \o (IF outcome.kind = "reject" THEN outcome.message
           ELSE "Failed to fetch documentation: HTTP " \o outcome.status)

\* What getDocumentation(version) returns for a page.
G_FullDocument(version, html) ==
    [version |-> version, url |-> G_DocUrl(version), content |-> html,
     length |-> Len(html), note |-> "Full EDSS REST API documentation retrieved"]

\* The get_edss_documentation case resumed by the outcome of the fetch.
G_getDocumentationResumed(c, outcome) ==
    LET version == Arg(c.args, "version", "latest")
        whole   == Return(c, Json(G_FullDocument(version, outcome.body)))
        answer(section) ==
            IF section.threw
            THEN HandlerCatch(c, "Failed to fetch " \o version \o " documentation: "
                                    \o InvalidRegExp)
            ELSE IF section.found /\ section.text # ""
            THEN Return(c, Json([version |-> version, section |-> c.args.val.section,
                                 url |-> G_DocUrl(version), content |-> section.text,
                                 note |-> "Extracted section: " \o c.args.val.section]))
            ELSE whole
    IN  IF outcome.kind # "ok" THEN HandlerCatch(c, G_FetchError(version, outcome))
        ELSE IF ~HasArg(c.args, "section") THEN whole
        ELSE answer(G_extractSection(outcome.body, c.args.val.section))

\* `${Math.round(parseInt(contentLength) / 1024)} KB`
SizeText(contentLength) ==
    LET bytes == parseInt(contentLength) IN
    IF ~bytes.some THEN "NaN KB"
    ELSE NumberText((2 * bytes.val + 1024) \div 2048) \o " KB"

\* getDownloadInfo resumed by the outcome of the HEAD request.
G_getDownloadInfoResumed(c, outcome) ==
    LET wrap(message) == HandlerCatch(c, "Failed to get download info: " \o message)
        h == outcome.headers
    IN  CASE outcome.kind = "reject" -> wrap(outcome.message)
          [] outcome.kind = "status" ->
               wrap("Failed to access ZIP download: HTTP " \o outcome.status)
          [] OTHER ->
               Return(c, Json(
                 [message      |-> "EDSS Documentation ZIP download available",
                  downloadUrl  |-> G_docUrls.latestZip,
                  contentType  |-> IF h.contentType.some THEN h.contentType.val
                                   ELSE "application/zip",
                  size         |-> IF h.contentLength.some THEN SizeText(h.contentLength.val)
                                   ELSE "Unknown size",
                  lastModified |-> IF h.lastModified.some THEN h.lastModified.val
                                   ELSE "Unknown",
                  instructions |-> "Use the downloadUrl to download the complete EDSS API documentation as a ZIP file"]))

\* matches.slice(0, 10)
MaxReported == 10

\* The body of the loop of searchDocumentation for one version, the fetch of
\* getDocumentation(ver) having ended: the entry pushed to results.
G_SearchEntry(ver, query, outcome) ==
    LET entry(found) ==
            IF found.threw THEN [version |-> ver, error |-> InvalidRegExp]
            ELSE [version    |-> ver,
                  query      |-> query.val,
                  matchCount |-> Len(found.matches),
                  matches    |-> SubSeq(found.matches, 1,
                                        IF Len(found.matches) < MaxReported
                                        THEN Len(found.matches) ELSE MaxReported),
                  url        |-> G_DocUrl(ver)]
    IN  IF outcome.kind # "ok" THEN [version |-> ver, error |-> G_FetchError(ver, outcome)]
        ELSE IF ~query.some THEN [version |-> ver, error |-> CannotRead("replace")]
        ELSE entry(G_findMatches(outcome.body, query.val))

G_searchDocumentationResumed(c, outcome) ==
    LET version  == Arg(c.args, "version", "latest")
        versions == VersionsOf(version)
        k        == Len(c.fetched)
        query    == QueryOf(c.args)
        goOn(results) ==
            IF k < Len(versions)
            THEN Await([c EXCEPT !.results = results], "doc", G_DocUrl(versions[k + 1]), "GET")
            ELSE Return([c EXCEPT !.results = results],
                        Json([searchQuery |-> query,
                              results     |-> results,
                              note        |-> IF Len(results) > 1
                                              THEN "Searched both versions"
                                              ELSE "Searched " \o version \o " version"]))
    IN  goOn(Append(c.results, G_SearchEntry(versions[k], query, outcome)))

\* analyzeEndpoints resumed by the outcome of the fetch.
G_analyzeEndpointsResumed(c, outcome, t) ==
    LET version   == Arg(c.args, "version", "latest")
        detailed  == Arg(c.args, "detailed", FALSE)
        html      == outcome.body
        answer(endpoints, summary) ==
            IF detailed
            THEN Return(c, Json([version |-> version, url |-> G_DocUrl(version),
                                 summary |-> summary, endpoints |-> endpoints,
                                 schemas |-> G_extractSchemas(html),
                                 authentication |-> G_extractAuthInfo(html),
                                 generatedAt |-> t]))
            ELSE Return(c, Json([version |-> version, url |-> G_DocUrl(version),
                                 summary |-> summary, endpoints |-> endpoints,
                                 generatedAt |-> t]))
        analysis(endpoints) ==
            answer(endpoints, [totalEndpoints    |-> Len(endpoints),
                               httpMethods       |-> G_extractHTTPMethods(html),
                               hasAuthentication |-> G_extractAuthInfo(html).found,
                               documentSize      |-> Len(html)])
    IN  IF outcome.kind # "ok"
        THEN HandlerCatch(c, "Failed to analyze endpoints: " \o G_FetchError(version, outcome))
        ELSE analysis(G_extractAPIEndpoints(html))

\* The comparison compareVersions builds from the two pages.
G_Comparison(focus, latest, trunk) ==
    LET base == [comparisonType |-> focus,
                 latest |-> [url |-> G_DocUrl("latest"), size |-> Len(latest)],
                 trunk  |-> [url |-> G_DocUrl("trunk"), size |-> Len(trunk)],
                 differences |->
                    [sizeDifference |-> IF Len(latest) > Len(trunk)
                                        THEN Len(latest) - Len(trunk)
                                        ELSE Len(trunk) - Len(latest),
                     percentageDifference |-> PercentageText(Len(latest), Len(trunk))]]
        has(seq, e) == \E i \in DOMAIN seq : seq[i] = e
        endpointComparison(latestEndpoints, trunkEndpoints) ==
            [latest |-> [count |-> Len(latestEndpoints), endpoints |-> latestEndpoints],
             trunk  |-> [count |-> Len(trunkEndpoints), endpoints |-> trunkEndpoints],
             onlyInLatest |-> Filter(latestEndpoints,
                 { i \in DOMAIN latestEndpoints :
                     ~has(trunkEndpoints, latestEndpoints[i]) }),
             onlyInTrunk  |-> Filter(trunkEndpoints,
                 { i \in DOMAIN trunkEndpoints :
                     ~has(latestEndpoints, trunkEndpoints[i]) })]
    IN  IF focus = "endpoints" \/ focus = "all"
        THEN [comparisonType |-> focus,
              latest |-> [url |-> G_DocUrl("latest"), size |-> Len(latest)],
              trunk  |-> [url |-> G_DocUrl("trunk"), size |-> Len(trunk)],
              differences |-> base.differences,
              endpointComparison |-> endpointComparison(G_extractAPIEndpoints(latest),
                                                        G_extractAPIEndpoints(trunk))]
        ELSE base

\* compareVersions resumed by the outcome of the fetch of latest (the first)
\* or of trunk (the second).
G_compareVersionsResumed(c, outcome) ==
    LET k       == Len(c.fetched)
        version == IF k = 1 THEN "latest" ELSE "trunk"
    IN  IF outcome.kind # "ok"
        THEN HandlerCatch(c, "Failed to compare versions: " \o G_FetchError(version, outcome))
        ELSE IF k = 1
        THEN Await([c EXCEPT !.results = << outcome.body >>], "doc", G_DocUrl("trunk"), "GET")
        ELSE Return(c, Json(G_Comparison(Arg(c.args, "focus", "summary"),
                                         c.results[1], outcome.body)))

\* The switch of the call-tool handler, each case up to its first await:
\* reading a property of the arguments raises when there are none.
G_Dispatch(c) ==
    CASE c.name = "get_edss_documentation" ->
           IF ~c.args.some THEN HandlerCatch(c, CannotRead("version"))
           ELSE Await(c, "doc", G_DocUrl(Arg(c.args, "version", "latest")), "GET")
      [] c.name = "download_edss_documentation" ->
           Await(c, "head", G_docUrls.latestZip, "HEAD")
      [] c.name = "search_edss_documentation" ->
           IF ~c.args.some THEN HandlerCatch(c, CannotRead("query"))
           ELSE Await(c, "doc",
                      G_DocUrl(VersionsOf(Arg(c.args, "version", "latest"))[1]), "GET")
      [] c.name = "analyze_edss_api_endpoints" ->
           IF ~c.args.some THEN HandlerCatch(c, CannotRead("version"))
           ELSE Await(c, "doc", G_DocUrl(Arg(c.args, "version", "latest")), "GET")
      [] c.name = "compare_documentation_versions" ->
           IF ~c.args.some THEN HandlerCatch(c, CannotRead("focus"))
           ELSE Await(c, "doc", G_DocUrl("latest"), "GET")
      [] OTHER -> HandlerCatch(c, "Unknown tool: " \o c.name)

-----------------------------------------------------------------------------
(* The server process                                                        *)
(*                                                                           *)
(* A behaviour is the life of one server process, the main server or the     *)
(* globally installed one.  Requests arrive at any time, also while earlier  *)
(* invocations are suspended at a fetch; the clock advances at any time.     *)

MaxCalls == 2

\* Of the invocations of a behaviour, how many may be of a tool other than
\* discover_documentation_links.
MaxOtherCalls == 1

MaxTicks == 1

\* The steps of the clock, in milliseconds.
TickSteps == {cacheTimeout - 1, cacheTimeout}

Idle == [fn |-> "none"]

ServerInit ==
    /\ now = 1
    /\ discoveredLinks = None
    /\ lastDiscovery = None
    /\ calls = <<>>
    /\ ticks = 0
    /\ site = SiteRegistry

ServerVars == <<now, discoveredLinks, lastDiscovery, calls, ticks, site>>

\* Whether one more invocation of the tool fits the bounds.  A request may
\* always be repeated once the invocations so far, all of that tool with
\* those arguments, have ended.
Admits(name, args) ==
    /\ Len(calls) < MaxCalls
    /\ \/ name = "discover_documentation_links"
       \/ Cardinality({ i \in DOMAIN calls :
                          calls[i].name # "discover_documentation_links" }) < MaxOtherCalls
       \/ \A i \in DOMAIN calls :
             calls[i].name = name /\ calls[i].args = args /\ calls[i].pc = "done"

Init ==
    /\ ServerInit
    /\ input = Idle
    /\ output = None

Serving(server) == input = Idle /\ \A i \in DOMAIN calls : calls[i].server = server

\* The clock jumps.  The jump the model follows is one between two requests:
\* while a call is in flight its time passes in SettleTimeout only.
Tick ==
    /\ input = Idle
    /\ ticks < MaxTicks
    /\ Len(calls) < MaxCalls
    /\ \A i \in DOMAIN calls : calls[i].pc = "done"
    /\ \E step \in TickSteps : now' = now + step
    /\ ticks' = ticks + 1
    /\ UNCHANGED <<discoveredLinks, lastDiscovery, calls, site, input, output>>

\* A handler that drops the cache at every request, whatever the tool.
CallTool_ClearsCache ==
    /\ Serving("main")
    /\ \E name \in ToolNames : \E args \in ArgsOf(name) :
          /\ Admits(name, args)
          /\ discoveredLinks' = None
          /\ lastDiscovery' = None
          /\ calls' = Append(calls, Dispatch(NewCall("main", name, args, now),
                                             None, None, now))
    /\ UNCHANGED <<now, ticks, site, input, output>>

\* A handler whose discoverLinks pays no attention to refresh.
CallTool_IgnoresRefresh ==
    /\ Serving("main")
    /\ \E name \in ToolNames : \E args \in ArgsOf(name) :
          /\ Admits(name, args)
          /\ UNCHANGED <<discoveredLinks, lastDiscovery>>
          /\ calls' = Append(calls, Dispatch(NewCall("main", name, args, now),
                                             discoveredLinks, lastDiscovery, now))
    /\ UNCHANGED <<now, ticks, site, input, output>>

\* A handler whose discoverLinks drops the registry and keeps its time.
CallTool_KeepsTimestamp ==
    /\ Serving("main")
    /\ \E name \in ToolNames : \E args \in ArgsOf(name) :
          LET refresh == name = "discover_documentation_links" /\ Arg(args, "refresh", FALSE)
              links   == IF refresh THEN None ELSE discoveredLinks
          IN  /\ Admits(name, args)
              /\ discoveredLinks' = links
              /\ lastDiscovery' = lastDiscovery
              /\ calls' = Append(calls, Dispatch(NewCall("main", name, args, now),
                                                 links, lastDiscovery, now))
    /\ UNCHANGED <<now, ticks, site, input, output>>

\* A request reaches the main server: the handler runs to the first await of
\* the operation.  discoverLinks with refresh drops the cache first.
CallTool ==
    /\ Serving("main")
    /\ \E name \in ToolNames : \E args \in ArgsOf(name) :
          LET refresh == name = "discover_documentation_links" /\ Arg(args, "refresh", FALSE)
              links   == IF refresh THEN None ELSE discoveredLinks
              last    == IF refresh THEN None ELSE lastDiscovery
          IN  /\ Admits(name, args)
              /\ discoveredLinks' = links
              /\ lastDiscovery' = last
              /\ calls' = Append(calls, Dispatch(NewCall("main", name, args, now),
                                                 links, last, now))
    /\ UNCHANGED <<now, ticks, site, input, output>>

\* The fetch of the index page ends.
IndexResponse ==
    /\ input = Idle
    /\ \E i \in DOMAIN calls : \E outcome \in IndexOutcomes :
          /\ calls[i].pc = "index"
          /\ LET c == Arrived(calls[i], Len(calls[i].fetched), outcome)
                 r == DiscoveryResult(outcome)
             IN  /\ discoveredLinks' = IF r.cache THEN Some(r.links) ELSE discoveredLinks
                 /\ lastDiscovery' = IF r.cache THEN Some(now) ELSE lastDiscovery
                 /\ calls' = [calls EXCEPT ![i] = AfterDiscovery(c, r.links, now)]
    /\ UNCHANGED <<now, ticks, site, input, output>>

\* The fetch of the ZIP ends.
ZipResponse ==
    /\ input = Idle
    /\ \E i \in DOMAIN calls : \E outcome \in ZipOutcomes :
          /\ calls[i].pc = "zip"
          /\ calls' = [calls EXCEPT ![i] =
                EnhancedResumed(Arrived(calls[i], Len(calls[i].fetched), outcome),
                                outcome, now)]
    /\ UNCHANGED <<now, discoveredLinks, lastDiscovery, ticks, site, input, output>>

\* The timer of processZipWithJQuery fires: the clock is then at or past the
\* time the timer was set for.
SettleTimeout ==
    /\ input = Idle
    /\ \E i \in DOMAIN calls :
          /\ calls[i].pc = "settle"
          /\ now' = IF now < calls[i].due THEN calls[i].due ELSE now
          /\ calls' = [calls EXCEPT ![i] = SettleResumed(calls[i])]
    /\ UNCHANGED <<discoveredLinks, lastDiscovery, ticks, site, input, output>>

\* The fetch of a documentation page ends (get, search, analyze).
DocResponse ==
    /\ Serving("main")
    /\ \E i \in DOMAIN calls : \E outcome \in DocOutcomes :
          /\ calls[i].pc = "doc"
          /\ LET c == Arrived(calls[i], Len(calls[i].fetched), outcome) IN
             calls' = [calls EXCEPT ![i] =
                CASE c.name = "get_edss_documentation" -> getDocumentationResumed(c, outcome)
                  [] c.name = "search_edss_documentation" ->
                       searchDocumentationResumed(c, outcome)
                  [] OTHER -> analyzeEndpointsResumed(c, outcome)]
    /\ UNCHANGED <<now, discoveredLinks, lastDiscovery, ticks, site, input, output>>

\* One of the two fetches of compareVersions ends.
CompareResponse ==
    /\ Serving("main")
    /\ \E i \in DOMAIN calls : \E k \in 1..2 : \E outcome \in DocOutcomes :
          /\ calls[i].pc = "both"
          /\ ~calls[i].fetched[k].outcome.some
          /\ calls' = [calls EXCEPT ![i] =
                compareVersionsResumed(Arrived(calls[i], k, outcome), outcome, now)]
    /\ UNCHANGED <<now, discoveredLinks, lastDiscovery, ticks, site, input, output>>

\* A request reaches the globally installed server, which has five tools.
G_CallTool ==
    /\ Serving("global")
    /\ \E name \in G_ToolNames : \E args \in ArgsOf(name) :
          /\ Admits(name, args)
          /\ calls' = Append(calls, G_Dispatch(NewCall("global", name, args, now)))
    /\ UNCHANGED <<now, discoveredLinks, lastDiscovery, ticks, site, input, output>>

\* A fetch of getDocumentation ends.
G_DocResponse ==
    /\ Serving("global")
    /\ \E i \in DOMAIN calls : \E outcome \in DocOutcomes :
          /\ calls[i].pc = "doc"
          /\ LET c == Arrived(calls[i], Len(calls[i].fetched), outcome) IN
             calls' = [calls EXCEPT ![i] =
                CASE c.name = "get_edss_documentation" -> G_getDocumentationResumed(c, outcome)
                  [] c.name = "search_edss_documentation" ->
                       G_searchDocumentationResumed(c, outcome)
                  [] c.name = "analyze_edss_api_endpoints" ->
                       G_analyzeEndpointsResumed(c, outcome, now)
                  [] OTHER -> G_compareVersionsResumed(c, outcome)]
    /\ UNCHANGED <<now, discoveredLinks, lastDiscovery, ticks, site, input, output>>

\* The HEAD request of getDownloadInfo ends.
G_HeadResponse ==
    /\ Serving("global")
    /\ \E i \in DOMAIN calls : \E outcome \in HeadOutcomes :
          /\ calls[i].pc = "head"
          /\ calls' = [calls EXCEPT ![i] =
                G_getDownloadInfoResumed(
                    Arrived(calls[i], Len(calls[i].fetched), outcome), outcome)]
    /\ UNCHANGED <<now, discoveredLinks, lastDiscovery, ticks, site, input, output>>

Next ==
    \/ Tick
    \/ CallTool
    \/ IndexResponse
    \/ ZipResponse
    \/ SettleTimeout
    \/ DocResponse
    \/ CompareResponse
    \/ G_CallTool
    \/ G_DocResponse
    \/ G_HeadResponse

Spec == Init /\ [][Next]_vars

-----------------------------------------------------------------------------
(* The specification of the pure functions: an input is drawn, the function  *)
(* is applied to it.                                                         *)

ParseInit ==
    /\ ServerInit
    /\ input \in { [fn |-> "parse", anchors |-> a] : a \in PagesOf(AnchorForms, MaxAnchors) }
    /\ output = None

ApplyParse ==
    /\ input.fn = "parse"
    /\ output = None
    /\ output' = Some(parseDocumentationLinks(Render(input.anchors)))
    /\ UNCHANGED <<input, ServerVars>>

SpecParse == ParseInit /\ [][ApplyParse]_vars

Parsed == input.fn = "parse" /\ output.some

WellFormed(anchors) == { i \in DOMAIN anchors : anchors[i].wellFormed }

AnchorKey(a) == a.lower \o "_" \o a.apiVersion

AliasKeys == {"latest_v3", "latest_v4"}

\* The descriptor a reader of the page gives the anchor.
Described(a) ==
    [url |-> a.full, zipUrl |-> a.zip, release |-> a.release,
     apiVersion |-> a.apiVersion, linkText |-> a.label, discovered |-> TRUE]

C6_AliasIsLastNonTrunk ==
    Parsed =>
      \A v \in {"v3", "v4"} :
        LET a  == input.anchors
            nt == { i \in WellFormed(a) : a[i].apiVersion = v /\ a[i].release # "trunk" }
        IN  /\ (("latest_" \o v) \in Keys(output.val)) <=> (nt # {})
            /\ (nt # {}) => Get(output.val, "latest_" \o v) = Described(a[Max(nt)])

\* A parsed page with two non-trunk releases of one API version followed by
\* a trunk anchor of that version: the alias is the second release.
C6_Witness ==
    /\ Parsed
    /\ Len(input.anchors) = 3
    /\ input.anchors[1] = AcmeAnchor
    /\ input.anchors[2] = LatestAnchor
    /\ input.anchors[3] = TrunkAnchor
    /\ Get(output.val, "latest_v4").release = "latest"

-----------------------------------------------------------------------------
(* The specification of the searches: a document and a query are drawn and   *)
(* one server's findMatches is applied.                                      *)

SearchUnits == {"a.b*c", "A.B*C", "a\\c", "axc", "abbc", "\n"}

MaxUnits == 2

\* Documents with more occurrences of a term than the cap on the matches, and
\* more than twice as many.
LongRuns == {MaxMatches + 1, 2 * MaxMatches + 2}

RepeatUnits == {"a\n", "a "}

Repeat(u, n) == Join([i \in 1..n |-> u], 1, n)

SearchDocs ==
    { Join(u, 1, Len(u)) : u \in PagesOf(SearchUnits, MaxUnits) }
        \cup { Repeat(u, n) : u \in RepeatUnits, n \in LongRuns }

Queries == {"", "a", "c", ".", "a.", "a*", "*", "b*c", "a.b*c", ".*"}

SearchInit ==
    /\ ServerInit
    /\ input \in { [fn |-> "search", server |-> s, doc |-> d, query |-> q] :
                     s \in {"main", "global"}, d \in SearchDocs, q \in Queries }
    /\ output = None

ApplyFindMatches ==
    /\ input.fn = "search" /\ input.server = "main"
    /\ output = None
    /\ output' = Some(findMatches(input.doc, input.query, "latest"))
    /\ UNCHANGED <<input, ServerVars>>

ApplyGFindMatches ==
    /\ input.fn = "search" /\ input.server = "global"
    /\ output = None
    /\ output' = Some(G_findMatches(input.doc, input.query))
    /\ UNCHANGED <<input, ServerVars>>

SearchNext == ApplyFindMatches \/ ApplyGFindMatches

SpecSearch == SearchInit /\ [][SearchNext]_vars

Searched == input.fn = "search" /\ output.some

HasMetaChar(query) == \E i \in 1..Len(query) : At(query, i) \in RegexMetaChars

\* Where the text q occurs in s, case-insensitively (positions).
Occurrences(s, q) ==
    { p \in 1..(Len(s) - Len(q) + 1) :
        toLowerCase(SubSeq(s, p, p + Len(q) - 1)) = toLowerCase(q) }

Range(seq) == { seq[i] : i \in DOMAIN seq }

\* C8: a query that contains regex metacharacters is searched for as the
\* literal text: the search does not fail, everything it reports is a
\* case-insensitive occurrence of the query (for the line-based search: a line
\* holding one), and the first occurrence in the document is reported.
C8_QueryIsLiteral ==
    (Searched /\ HasMetaChar(input.query)) =>
      LET q     == input.query
          doc   == input.doc
          found == Range(output.val.matches)
          lines == split(doc)
      IN  /\ ~output.val.threw
          /\ input.server = "global" =>
               /\ \A m \in found : toLowerCase(m.match) = toLowerCase(q)
               /\ Occurrences(doc, q) # {} =>
                    \E m \in found : m.position + 1 = Min(Occurrences(doc, q))
          /\ input.server = "main" =>
               /\ \A m \in found : Occurrences(lines[m.line], q) # {}
               /\ \A i \in DOMAIN lines :
                    (Occurrences(lines[i], q) # {}
                       /\ \A j \in 1..(i - 1) : Occurrences(lines[j], q) = {})
                    => \E m \in found : m.line = i

\* C9: a search returns at most 50 matches for a document, however many
\* occurrences of the term the document holds.
C9_AtMostFiftyMatches ==
    Searched => Len(output.val.matches) <= MaxMatches

-----------------------------------------------------------------------------
(* The specification of the endpoint extraction: a text is drawn and         *)
(* extractEndpoints is applied, with and without the details.                *)

ExampleText == "GET /api/v4/volumes and POST /api/v4/pools"

ExtractTokens ==
    {"GET ", "POST ", "/x", " and ", "PUT\t/api/{id}.json", "get /y",
     "<p>All <b>x</b></p>", "\"id\": \"int\""}

MaxTokens == 3

ExtractTexts ==
    { Join(u, 1, Len(u)) : u \in PagesOf(ExtractTokens, MaxTokens) } \cup {ExampleText}

ExtractInit ==
    /\ ServerInit
    /\ input \in { [fn |-> "extract", text |-> x, detailed |-> d] :
                     x \in ExtractTexts, d \in BOOLEAN }
    /\ output = None

ApplyExtract ==
    /\ input.fn = "extract"
    /\ output = None
    /\ output' = Some(ExtractScan(input.text, input.detailed))
    /\ UNCHANGED <<input, ServerVars>>

SpecExtract == ExtractInit /\ [][ApplyExtract]_vars

Extracted == input.fn = "extract" /\ output.some /\ ~input.detailed

\* s reads m at position p.
ReadsAt(s, p, m) == p + Len(m) - 1 <= Len(s) /\ SubSeq(s, p, p + Len(m) - 1) = m

AllIn(s, lo, hi, set) == \A i \in lo..hi : At(s, i) \in set

\* The positions q at which a path can start after the method m read at p:
\* m is followed by white space up to q, and a path character stands at q.
PathStarts(s, p, m) ==
    { q \in (p + Len(m) + 1)..Len(s) :
        /\ AllIn(s, p + Len(m), q - 1, WhiteSpace)
        /\ At(s, q) \in PathChars }

\* A method, white space and a run of path characters stand at p.
OccursAt(s, p) ==
    \E i \in DOMAIN HttpMethods :
        ReadsAt(s, p, HttpMethods[i]) /\ PathStarts(s, p, HttpMethods[i]) # {}

\* A method, white space and a path that begins with a slash stand at p, the
\* method not being the tail of a longer word.
PairAt(s, p) ==
    /\ ~IsWordAt(s, p - 1)
    /\ \E i \in DOMAIN HttpMethods :
          /\ ReadsAt(s, p, HttpMethods[i])
          /\ \E q \in PathStarts(s, p, HttpMethods[i]) : At(s, q) = "/"

\* The record read off the text between start and end: the method, and the
\* path characters that fill the text from the end of the white space to end.
ReadsAs(s, start, end, rec) ==
    /\ rec.method \in Range(HttpMethods)
    /\ ReadsAt(s, start, rec.method)
    /\ \E q \in PathStarts(s, start, rec.method) :
          /\ q < end
          /\ AllIn(s, q, end - 1, PathChars)
          /\ end = Len(s) + 1 \/ At(s, end) \notin PathChars
          /\ rec.path = SubSeq(s, q, end - 1)

\* C10 as claimed: the records are, in text order, the METHOD-path pairs of
\* the text, one record per pair.
C10_AsClaimed ==
    Extracted =>
      LET s     == input.text
          recs  == output.val.endpoints
          pairs == Ascending({ p \in 1..Len(s) : PairAt(s, p) })
      IN  /\ Len(recs) = Len(pairs)
          /\ \A k \in DOMAIN recs :
                \E end \in (pairs[k] + 1)..(Len(s) + 1) : ReadsAs(s, pairs[k], end, recs[k])

\* C10 (amended): extractEndpoints(text, false) returns, in text order, one
\* record {method, path} for each match found scanning left to right without
\* overlap for a method name (GET, POST, PUT, DELETE, PATCH), white space and
\* the longest run of path characters (letters, digits, _ / - { } .) after
\* it: the run need not begin with a slash, and a method-path pair that
\* begins inside an earlier match gives no record.  For the text
\* "GET /api/v4/volumes and POST /api/v4/pools" the result is exactly the two
\* records {GET, /api/v4/volumes} and {POST, /api/v4/pools}.
C10_NonOverlappingMatches ==
    Extracted =>
      LET s     == input.text
          recs  == output.val.endpoints
          spans == output.val.spans
      IN  /\ Len(recs) = Len(spans)
          /\ \A k \in DOMAIN recs :
                /\ DOMAIN recs[k] = {"method", "path"}
                /\ ReadsAs(s, spans[k].start, spans[k].end, recs[k])
          /\ \A k \in 1..(Len(spans) - 1) : spans[k].end <= spans[k + 1].start
          /\ \A p \in 1..Len(s) :
                OccursAt(s, p) =>
                    \E k \in DOMAIN spans : spans[k].start <= p /\ p < spans[k].end
          /\ (s = ExampleText) =>
                recs = << [method |-> "GET", path |-> "/api/v4/volumes"],
                          [method |-> "POST", path |-> "/api/v4/pools"] >>

\* A scan that returned a record although a method-path pair of the text
\* begins inside the match of that record.
C10_Witness ==
    /\ Extracted
    /\ Len(output.val.endpoints) = 1
    /\ \E p \in 1..Len(input.text) :
          /\ PairAt(input.text, p)
          /\ output.val.spans[1].start < p
          /\ p < output.val.spans[1].end

-----------------------------------------------------------------------------
(* Properties of the server process (Spec)                                   *)

Discovers(c) ==
    /\ c.server = "main"
    /\ c.name \in {"discover_documentation_links", "get_edss_documentation_enhanced"}

Refreshes(c) == c.name = "discover_documentation_links" /\ Arg(c.args, "refresh", FALSE)

\* The positions, in the fetches of an invocation, of those of the index page.
IndexFetches(c) == { k \in DOMAIN c.fetched : c.fetched[k].url = baseUrl }

\* The invocation fetched the index page and the fetch has ended.
IndexFetched(c) ==
    /\ Discovers(c)
    /\ IndexFetches(c) # {}
    /\ c.fetched[1].outcome.some

IndexFailed(c) == IndexFetched(c) /\ c.fetched[1].outcome.val.kind # "ok"

IndexServed(c) == IndexFetched(c) /\ c.fetched[1].outcome.val.kind = "ok"

\* The text of the payload an invocation was answered with.
Answer(c) == c.result.val.content[1].text

\* C1: when an invocation that is not a forced refresh enters
\* discoverDocumentationLinks, it returns the cached registry without a fetch
\* of the index page if a registry is cached and now - lastDiscovery is below
\* ten minutes; otherwise (nothing cached, or an age of ten minutes or more)
\* it issues exactly one fetch of the index page and waits for it.
C1_CacheRule ==
    [][ \A i \in DOMAIN calls' :
          (i \notin DOMAIN calls /\ Discovers(calls'[i]) /\ ~Refreshes(calls'[i])) =>
             LET c == calls'[i] IN
             IF discoveredLinks.some /\ lastDiscovery.some
                  /\ now - lastDiscovery.val < 10 * 60 * 1000
             THEN /\ IndexFetches(c) = {}
                  /\ c.links = discoveredLinks
                  /\ (c.name = "discover_documentation_links") =>
                        /\ c.pc = "done"
                        /\ Answer(c).v.links = discoveredLinks.val
             ELSE /\ c.pc = "index"
                  /\ c.links = None
                  /\ c.fetched = << [url |-> baseUrl, method |-> "GET", outcome |-> None] >>
      ]_vars

\* A discovery answered, without a fetch, from a registry cached one
\* millisecond less than ten minutes before.
C1_Witness ==
    /\ lastDiscovery.some
    /\ \E i \in DOMAIN calls :
          /\ Discovers(calls[i]) /\ ~Refreshes(calls[i])
          /\ calls[i].fetched = <<>>
          /\ calls[i].links = discoveredLinks
          /\ calls[i].started - lastDiscovery.val = cacheTimeout - 1

\* C2: when the fetch of the index page fails (it is rejected, or answered
\* with a status that is not a success), discoverDocumentationLinks raises
\* nothing and returns a registry with exactly the keys latest_v4 and
\* trunk_v4: the discover tool answers with that registry and no error.
C2_LegacyOnFailure ==
    \A i \in DOMAIN calls :
       IndexFailed(calls[i]) =>
          LET c == calls[i] IN
          /\ ~c.escaped
          /\ c.links.some
          /\ Keys(c.links.val) = {"latest_v4", "trunk_v4"}
          /\ Len(c.links.val) = 2
          /\ (c.name = "discover_documentation_links") =>
                /\ c.pc = "done"
                /\ ~c.caught.some
                /\ Answer(c).kind = "json"
                /\ Answer(c).v.links = c.links.val
                /\ Answer(c).v.totalFound = 2

\* Both kinds of failure have been answered by the discover tool.
C2_Witness ==
    \E i, j \in DOMAIN calls :
       /\ calls[i].name = "discover_documentation_links"
       /\ calls[j].name = "discover_documentation_links"
       /\ IndexFailed(calls[i]) /\ calls[i].fetched[1].outcome.val.kind = "reject"
       /\ IndexFailed(calls[j]) /\ calls[j].fetched[1].outcome.val.kind = "status"
       /\ calls[i].pc = "done" /\ calls[j].pc = "done"

C4_EmptyIsNotLegacy ==
    \A i \in DOMAIN calls :
       LET c == calls[i] IN
       /\ (IndexServed(c) /\ WellFormed(c.fetched[1].outcome.val.anchors) = {}) =>
             /\ c.links = Some(EmptyLinks)
             /\ Keys(c.links.val) = {}
             /\ (c.name = "discover_documentation_links") => Answer(c).v.totalFound = 0
       /\ (c.links.some /\ c.links.val = buildLegacyLinks) => IndexFailed(c)

\* The discover tool answered for a page whose only anchor leads elsewhere.
C4_Witness ==
    \E i \in DOMAIN calls :
       /\ calls[i].name = "discover_documentation_links"
       /\ IndexServed(calls[i])
       /\ calls[i].fetched[1].outcome.val.anchors = <<OtherAnchor>>
       /\ calls[i].pc = "done"
       /\ Answer(calls[i]).v.links = EmptyLinks

\* C7: in every registry discovery returns, parsed or legacy, the zipUrl of
\* every entry that is not an alias is its url followed by get_doc.php?t=zip,
\* with a "/" between the two when the url does not end in one.  (The
\* aliases, being copies, have the property as well.)
C7_ZipUrlFromPageUrl ==
    \A i \in DOMAIN calls :
       calls[i].links.some =>
          \A k \in DOMAIN calls[i].links.val :
             LET e == calls[i].links.val[k].val IN
             e.zipUrl = e.url \o (IF endsWith(e.url, "/") THEN "" ELSE "/")
                              \o "get_doc.php?t=zip"

\* A parsed registry with an entry whose url has no closing slash, and the
\* legacy registry, have both been returned.
C7_Witness ==
    \E i, j \in DOMAIN calls :
       /\ IndexServed(calls[i]) /\ calls[i].links.some
       /\ \E k \in DOMAIN calls[i].links.val :
             /\ calls[i].links.val[k].key \notin AliasKeys
             /\ ~endsWith(calls[i].links.val[k].val.url, "/")
       /\ IndexFailed(calls[j]) /\ calls[j].links = Some(buildLegacyLinks)

-----------------------------------------------------------------------------
(* The specification of repeated calls: one server object serves a sequence  *)
(* of calls of its text functions, and output is the log of the calls with   *)
(* what each returned.                                                       *)

RepeatTexts ==
    { ExampleText,
      "GET GET /x",
      "endpoint: /api/v4/x url: /api/y get /x GET /x",
      "<p>All <b>x</b></p>POST /y \"id\": \"int\"" }

RepeatQueries == {"x", "get"}

MaxRepeats == 3

\* An extraction that appends to the list the call before it left.
ExtractCall_Accumulating(content, detailed, log) ==
    LET earlier == { k \in DOMAIN log : log[k].fn = "extractEndpoints" } IN
    (IF earlier = {} THEN <<>> ELSE log[Max(earlier)].result)
        \o extractEndpoints(content, detailed)

\* this.extractEndpoints(content, detailed), called after the calls of log:
\* the list (const endpoints = []) and the pattern object (a literal, whose
\* lastIndex starts at 0) are made anew by every call, and the function reads
\* no field of the server object.
ExtractCall(content, detailed, log) == extractEndpoints(content, detailed)

\* this.extractAPIEndpoints(html), called after the calls of log: the list
\* and the four pattern objects are made anew by every call.
G_ExtractCall(html, log) == G_extractAPIEndpoints(html)

Logged(fn, text, detailed, result) ==
    [fn |-> fn, text |-> text, detailed |-> detailed, result |-> result]

RepeatInit ==
    /\ ServerInit
    /\ input \in { [fn |-> "repeat", server |-> s] : s \in {"main", "global"} }
    /\ output = Some(<<>>)

RepeatExtract ==
    /\ input.fn = "repeat" /\ input.server = "main"
    /\ Len(output.val) < MaxRepeats
    /\ \E text \in RepeatTexts, detailed \in BOOLEAN :
          output' = Some(Append(output.val,
                       Logged("extractEndpoints", text, detailed,
                              ExtractCall(text, detailed, output.val))))
    /\ UNCHANGED <<input, ServerVars>>

RepeatPool ==
    /\ input.fn = "repeat" /\ input.server = "global"
    /\ Len(output.val) < MaxRepeats
    /\ \E html \in RepeatTexts :
          output' = Some(Append(output.val,
                       Logged("extractAPIEndpoints", html, FALSE,
                              G_ExtractCall(html, output.val))))
    /\ UNCHANGED <<input, ServerVars>>

\* Another operation of the same object between two extractions: a search.
RepeatSearch ==
    /\ input.fn = "repeat"
    /\ Len(output.val) < MaxRepeats
    /\ \E text \in RepeatTexts, query \in RepeatQueries :
          output' = Some(Append(output.val,
                       Logged("findMatches", text, FALSE,
                              IF input.server = "main"
                              THEN findMatches(text, query, "latest").matches
                              ELSE G_findMatches(text, query).matches)))
    /\ UNCHANGED <<input, ServerVars>>

RepeatNext == RepeatExtract \/ RepeatPool \/ RepeatSearch

SpecRepeat == RepeatInit /\ [][RepeatNext]_vars

Extractions(log) == { k \in DOMAIN log : log[k].fn # "findMatches" }

-----------------------------------------------------------------------------
(* The specification of the pooled extraction: a text is drawn and           *)
(* extractAPIEndpoints is applied.                                           *)

PoolTokens ==
    {"GET ", "/api/v4/volumes", " /api/v4/volumes", " endpoint: /x", " url: /api/y",
     " post /x", "/api/7/", " "}

PoolTexts == { Join(u, 1, Len(u)) : u \in PagesOf(PoolTokens, MaxTokens) }

PoolInit ==
    /\ ServerInit
    /\ input \in { [fn |-> "pool", html |-> x] : x \in PoolTexts }
    /\ output = None

ApplyPool ==
    /\ input.fn = "pool"
    /\ output = None
    /\ output' = Some(G_extractAPIEndpoints(input.html))
    /\ UNCHANGED <<input, ServerVars>>

SpecPool == PoolInit /\ [][ApplyPool]_vars

Pooled == input.fn = "pool" /\ output.some

\* The text the k-th pattern matches at position p of html, if it matches.
PatternAt(html, k, p) == MatchAt(G_endpointPatterns[k], html, p, TRUE)

\* The place p lies within a match of the k-th pattern that begins before it.
Overlapped(html, k, p) ==
    \E q \in 1..(p - 1) : PatternAt(html, k, q).ok /\ p < PatternAt(html, k, q).end

\* C12: the pooled endpoint list holds no string twice; it holds every
\* string html.match returns for any of the four patterns, every place where
\* a pattern matches lies within an occurrence of a string of the list, and
\* every string of the list is a text that a pattern matches in the document;
\* where the method-pair pattern finds a method and a path (not within a
\* match that began earlier) and the absolute-path pattern matches the path
\* as well, the list holds both strings, the bare path and the method with
\* the path.
C12_PooledRawStrings ==
    Pooled =>
      LET html == input.html
          list == output.val
          patterns == DOMAIN G_endpointPatterns
      IN  /\ \A i, j \in DOMAIN list : list[i] = list[j] => i = j
          /\ \A k \in patterns :
                Range(MatchAll(G_endpointPatterns[k], html, TRUE)) \subseteq Range(list)
          /\ \A k \in patterns : \A p \in 1..Len(html) :
                PatternAt(html, k, p).ok =>
                   \E e \in Range(list) : \E q \in 1..p :
                      ReadsAt(html, q, e) /\ p < q + Len(e)
          /\ \A e \in Range(list) : \E k \in patterns : \E p \in 1..Len(html) :
                PatternAt(html, k, p).ok /\ Matched(html, PatternAt(html, k, p)) = e
          /\ \A p \in 1..Len(html) :
                LET pair == PatternAt(html, 4, p)
                    bare == PatternAt(html, 1, pair.caps[2][1])
                IN  (pair.ok /\ bare.ok /\ ~Overlapped(html, 4, p)) =>
                       /\ Matched(html, pair) \in Range(list)
                       /\ Matched(html, bare) \in Range(list)
                       /\ Matched(html, bare) = Group(html, pair, 2)
                       /\ Matched(html, bare) # Matched(html, pair)

\* The bare path is matched twice and once more after a method: the list
\* holds the path once, and the method with the path beside it.
C12_Witness ==
    /\ Pooled
    /\ input.html = "GET /api/v4/volumes /api/v4/volumes"
    /\ output.val = << "/api/v4/volumes", "GET /api/v4/volumes" >>

-----------------------------------------------------------------------------
(* Properties of the enhanced documentation (Spec)                           *)

Enhanced(c) == c.server = "main" /\ c.name = "get_edss_documentation_enhanced"

\* The invocation fetched the ZIP of its target and the archive was loaded.
ZipLoaded(c) ==
    /\ Enhanced(c)
    /\ c.target.some
    /\ c.fetched # <<>>
    /\ c.fetched[Len(c.fetched)].url = c.target.val.zipUrl
    /\ c.fetched[Len(c.fetched)].outcome.some
    /\ c.fetched[Len(c.fetched)].outcome.val.kind = "ok"
    /\ c.fetched[Len(c.fetched)].outcome.val.archive.valid

ZipFiles(c) == c.fetched[Len(c.fetched)].outcome.val.archive.files

\* The invocation was answered with the error text of getDocumentationEnhanced.
EnhancedError(c) ==
    /\ c.pc = "done"
    /\ Answer(c).kind = "string"
    /\ startsWith(Answer(c).s, "Error retrieving enhanced documentation: ")

\* C13: when the downloaded ZIP has no entry that is not a directory and
\* whose name ends in .html, the enhanced documentation is answered with an
\* error message, with useJavaScript true and with useJavaScript false.
C13_NoHtmlIsAnError ==
    \A i \in DOMAIN calls :
       (ZipLoaded(calls[i]) /\ HtmlEntries(ZipFiles(calls[i])) = {})
       => EnhancedError(calls[i])

\* C14: when running the injected script library has not defined window.$,
\* the enhanced documentation is answered with an error message and not with
\* the HTML of the document.
C14_NoScriptingIsAnError ==
    \A i \in DOMAIN calls :
       (Enhanced(calls[i]) /\ calls[i].pc = "done"
          /\ calls[i].dom.some /\ ~calls[i].dom.val.jquery)
       => EnhancedError(calls[i])

-----------------------------------------------------------------------------
(* The specification of the comparison: two pages and a focus are drawn and  *)
(* one server's comparison is built from them.                               *)

CompareDocs ==
    { "",
      "GET /x POST /api/v4/pools",
      "GET  /x",
      "GET /x GET /x PUT /y",
      "get /x /api/v4/pools",
      "POST /api/v4/pools endpoint: /x" }

\* Pages of 1000 and of 1200 characters.
LongDocs == { Repeat("a", 1000), Repeat("a", 1200) }

Foci == {"endpoints", "changes", "summary", "all"}

CompareInit ==
    /\ ServerInit
    /\ input \in
         { [fn |-> "compare", server |-> s, latest |-> l, trunk |-> t, focus |-> f] :
             s \in {"main", "global"}, l \in CompareDocs, t \in CompareDocs, f \in Foci }
         \cup
         { [fn |-> "compare", server |-> s, latest |-> l, trunk |-> t, focus |-> "summary"] :
             s \in {"main", "global"}, l \in LongDocs, t \in LongDocs }
    /\ output = None

ApplyCompare ==
    /\ input.fn = "compare" /\ input.server = "main"
    /\ output = None
    /\ output' = Some(compareContent(input.latest, input.trunk, input.focus, now))
    /\ UNCHANGED <<input, ServerVars>>

ApplyGCompare ==
    /\ input.fn = "compare" /\ input.server = "global"
    /\ output = None
    /\ output' = Some(G_Comparison(input.focus, input.latest, input.trunk))
    /\ UNCHANGED <<input, ServerVars>>

CompareNext == ApplyCompare \/ ApplyGCompare

SpecCompare == CompareInit /\ [][CompareNext]_vars

Compared == input.fn = "compare" /\ output.some

Magnitude(a, b) == IF a > b THEN a - b ELSE b - a

\* d * 100 / a in hundredths, rounded to the nearest (a half upwards), as
\* the text with two decimals
Hundredths(d, a) == (2 * d * 10000 + a) \div (2 * a)

TwoDecimals(h) ==
    NumberText(h \div 100) \o "." \o NumberText((h % 100) \div 10) \o NumberText(h % 10)

\* C15: the comparison reports the size difference of the two pages as the
\* magnitude of the difference of their lengths (200 for a latest of 1000 and
\* a trunk of 1200 characters), and a percentage difference that is
\* |latest - trunk| * 100 / latest, relative to the size of latest.
C15_MagnitudeAndPercentage ==
    Compared =>
      LET l == Len(input.latest)
          t == Len(input.trunk)
          reported == IF input.server = "main" THEN "summary" \in DOMAIN output.val ELSE TRUE
          sizes == IF input.server = "main" THEN output.val.summary
                   ELSE output.val.differences
          sizeName == IF input.server = "main" THEN "size_difference" ELSE "sizeDifference"
      IN  reported =>
            /\ sizes[sizeName] = Magnitude(l, t)
            /\ "percentageDifference" \in DOMAIN sizes
            /\ (l > 0) =>
                 sizes.percentageDifference = TwoDecimals(Hundredths(Magnitude(l, t), l))


\* The endpoint lists the comparison extracted from the two pages, and the
\* two difference lists it reports.
ComparedLists ==
    IF input.server = "main"
    THEN [latest      |-> extractEndpoints(input.latest, FALSE),
          trunk       |-> extractEndpoints(input.trunk, FALSE),
          latest_only |-> output.val.endpoints.latest_only,
          trunk_only  |-> output.val.endpoints.trunk_only]
    ELSE [latest      |-> G_extractAPIEndpoints(input.latest),
          trunk       |-> G_extractAPIEndpoints(input.trunk),
          latest_only |-> output.val.endpointComparison.onlyInLatest,
          trunk_only  |-> output.val.endpointComparison.onlyInTrunk]

WithEndpoints == Compared /\ input.focus \in {"endpoints", "all"}

\* The method and the path of an extracted item.  An item of the main server
\* is a record of the two.  An item of the globally installed server is a
\* matched string: its method and path are those the method-pair pattern
\* reads when it matches the whole string; any other string is a path
\* without a method.
ItemRecord(e) ==
    IF input.server = "main" THEN [method |-> e.method, path |-> e.path]
    ELSE LET m == PatternAt(e, 4, 1) IN
         IF m.ok /\ m.end = Len(e) + 1
         THEN [method |-> Group(e, m, 1), path |-> Group(e, m, 2)]
         ELSE [method |-> "", path |-> e]

Records(list) == { ItemRecord(list[k]) : k \in DOMAIN list }

\* The items of list that have no equal item in other, in the order of list.
Without(list, other) ==
    Filter(list, { k \in DOMAIN list : list[k] \notin Range(other) })

\* C16 as claimed: on both servers the difference lists are the set
\* differences under equality of method and path.
C16_AsClaimed ==
    WithEndpoints =>
      LET c == ComparedLists IN
      /\ Records(c.latest_only) = Records(c.latest) \ Records(c.trunk)
      /\ Records(c.trunk_only) = Records(c.trunk) \ Records(c.latest)

\* C16 (amended): when the focus includes the endpoints, the two difference
\* lists are exact differences under the equality of the items the server
\* extracts.  On the main server an item is a record {method, path}: a record
\* is in latest_only iff it was extracted from latest and no record with the
\* same method and path was extracted from trunk, symmetrically for
\* trunk_only, and no endpoint extracted from both pages is in either list.
\* On the globally installed server an item is a matched string: a string is
\* in onlyInLatest iff it is in the list of latest and the same string is not
\* in the list of trunk, symmetrically for onlyInTrunk; two strings that
\* spell the same method and path differently are different items.
C16_ExactDifferences ==
    WithEndpoints =>
      LET c == ComparedLists IN
      /\ c.latest_only = Without(c.latest, c.trunk)
      /\ c.trunk_only = Without(c.trunk, c.latest)
      /\ Range(c.latest_only) \cap Range(c.trunk) = {}
      /\ Range(c.trunk_only) \cap Range(c.latest) = {}
      /\ (input.server = "main") =>
            /\ Records(c.latest_only) = Records(c.latest) \ Records(c.trunk)
            /\ Records(c.trunk_only) = Records(c.trunk) \ Records(c.latest)
            /\ \A k \in DOMAIN c.latest : DOMAIN c.latest[k] = {"method", "path"}

\* The main server compared two pages that share GET /x: each list holds
\* the one endpoint that only its page has.
C16_Witness ==
    /\ WithEndpoints
    /\ input.server = "main"
    /\ input.latest = "GET /x POST /api/v4/pools"
    /\ input.trunk = "GET /x GET /x PUT /y"
    /\ output.val.endpoints.latest_only = << [method |-> "POST", path |-> "/api/v4/pools"] >>
    /\ output.val.endpoints.trunk_only = << [method |-> "PUT", path |-> "/y"] >>

-----------------------------------------------------------------------------
(* Properties of overlapping invocations (Spec)                              *)

\* C17 as claimed: an invocation has ended before the next one begins.
C17_AsClaimed ==
    \A i, j \in DOMAIN calls : i < j => calls[i].pc = "done"

\* C17 (amended): invocations may overlap, a request that arrives while an
\* earlier invocation is suspended at a fetch or at the timer is begun at
\* once; but the registry cache is read only when an invocation begins, in
\* the stretch that runs up to its first await, and never after one.  So the
\* registry an invocation works with is the one parsed from the page its own
\* fetch of the index was served, the legacy one when that fetch failed, or,
\* when it made no such fetch, a registry that an invocation begun before it
\* had parsed and cached: no invocation observes the cache as written by an
\* invocation that began after it.
C17_CacheReadAtStart ==
    \A i \in DOMAIN calls :
       LET c == calls[i] IN
       c.links.some =>
          /\ Discovers(c)
          /\ IF IndexFetches(c) = {}
             THEN \E j \in 1..(i - 1) :
                     IndexServed(calls[j]) /\ calls[j].links = c.links
             ELSE IF IndexServed(c)
             THEN c.links = Some(site[c.fetched[1].outcome.val.anchors])
             ELSE c.links = Some(buildLegacyLinks)

\* Two invocations overlapped: the first was suspended at its fetch of the
\* index page while the second, begun after it, was served another page and
\* cached its registry; the first then went on with the registry of its own
\* page, which is the one cached now.
C17_Witness ==
    /\ Len(calls) = 2
    /\ IndexServed(calls[1]) /\ IndexServed(calls[2])
    /\ calls[1].links.some /\ calls[2].links.some
    /\ calls[1].links # calls[2].links
    /\ calls[1].started = calls[2].started
    /\ ~Refreshes(calls[2])
    /\ discoveredLinks = calls[1].links


\* The k-th fetch of the invocation was of a documentation page or of a ZIP
\* and failed: it was rejected, or answered with a status that is no success.
FetchFailed(c, k) ==
    /\ c.fetched[k].url # baseUrl
    /\ c.fetched[k].outcome.some
    /\ c.fetched[k].outcome.val.kind # "ok"

\* The answer of the invocation tells of the failure of its k-th fetch: it is
\* an error text, or it lists results and holds an error entry for the
\* version that fetch was for.
Reported(c, k) ==
    LET a == Answer(c) IN
    \/ a.kind = "string" /\ startsWith(a.s, "Error")
    \/ /\ a.kind = "json"
       /\ "results" \in DOMAIN a.v
       /\ \E r \in DOMAIN a.v.results :
             /\ "error" \in DOMAIN a.v.results[r]
             /\ a.v.results[r].version = VersionsOf(Arg(c.args, "version", "latest"))[k]

\* C18: no operation retries, an invocation fetches each URL at most once;
\* a failed fetch of a page or of a ZIP ends the invocation (a comparison
\* whose two fetches are under way ends when both have ended or one was
\* rejected; a search over both versions goes on to the next version), and
\* the answer reports the failure as text, for each failed version of a
\* search over both versions as well.
C18_FailuresAreReported ==
    \A i \in DOMAIN calls :
       LET c == calls[i] IN
       /\ \A k, l \in DOMAIN c.fetched : c.fetched[k].url = c.fetched[l].url => k = l
       /\ \A k \in DOMAIN c.fetched :
             FetchFailed(c, k) =>
                /\ (c.pc = "done") => Reported(c, k)
                /\ (c.name # "search_edss_documentation") =>
                      \/ /\ c.pc = "done"
                         /\ k = Len(c.fetched) \/ c.pc = "both"
                                               \/ c.name = "compare_documentation_versions"
                      \/ /\ c.pc = "both"
                         /\ c.fetched[k].outcome.val.kind = "status"

-----------------------------------------------------------------------------
(* Properties of the content an invocation reports (Spec)                    *)

ContentTools ==
    {"get_edss_documentation", "search_edss_documentation",
     "analyze_edss_api_endpoints", "compare_documentation_versions",
     "get_edss_documentation_enhanced"}

FrameTools ==
    {"get_edss_documentation", "search_edss_documentation",
     "analyze_edss_api_endpoints", "compare_documentation_versions",
     "download_edss_documentation"}

\* The URLs of the content an invocation reports on, in the order of the code.
ContentUrls(c) ==
    LET version  == Arg(c.args, "version", "latest")
        versions == VersionsOf(version)
        url(v)   == IF c.server = "main" THEN DocUrl(v) ELSE G_DocUrl(v)
    IN  CASE c.name = "search_edss_documentation" ->
               [k \in DOMAIN versions |-> url(versions[k])]
          [] c.name = "compare_documentation_versions" -> << url("latest"), url("trunk") >>
          [] c.name = "get_edss_documentation_enhanced" -> << c.target.val.zipUrl >>
          [] OTHER -> << url(version) >>

\* The invocation has ended and was answered with content, not with an error.
AnsweredWithContent(c) ==
    /\ c.pc = "done"
    /\ ~c.caught.some
    /\ ~(Answer(c).kind = "string" /\ startsWith(Answer(c).s, "Error"))

\* The fetches of the invocation other than that of the index page.
OwnFetches(c) == SelectSeq(c.fetched, LAMBDA f : f.url # baseUrl)

\* The invocation itself fetched, to the end, every URL whose content it
\* reports on, and a whole page it returns is the body it was served.
FreshlyFetched(c) ==
    LET own == OwnFetches(c) IN
    /\ [k \in DOMAIN own |-> own[k].url] = ContentUrls(c)
    /\ \A k \in DOMAIN own : own[k].outcome.some
    /\ (c.name = "get_edss_documentation" /\ ~HasArg(c.args, "section")) =>
          /\ own[1].outcome.val.kind = "ok"
          /\ IF c.server = "main" THEN Answer(c) = Text(own[1].outcome.val.body)
             ELSE Answer(c).v.content = own[1].outcome.val.body

\* C19: the content of pages and archives is not kept from one call to the
\* next: every invocation of get, search, analyze, compare and enhanced get
\* that is answered with content has fetched that content itself; and no step
\* of an invocation of get, search, analyze, compare or download changes the
\* registry cache (discoveredLinks, lastDiscovery).
C19_NoContentCache ==
    [][ \A i \in DOMAIN calls' :
          LET c == calls'[i] IN
          (i \notin DOMAIN calls \/ calls[i] # c) =>
             /\ (c.name \in FrameTools) =>
                   /\ discoveredLinks' = discoveredLinks
                   /\ lastDiscovery' = lastDiscovery
             /\ (c.name \in ContentTools /\ AnsweredWithContent(c)) => FreshlyFetched(c)
      ]_vars

\* The same page was asked for twice, the second time after the first
\* invocation had ended: each invocation fetched it, and the second returned
\* the body it was served, which is another than the first was served.
C19_Witness ==
    /\ Len(calls) = 2
    /\ \A i \in 1..2 :
          /\ calls[i].server = "main"
          /\ calls[i].name = "get_edss_documentation"
          /\ calls[i].args = None
          /\ AnsweredWithContent(calls[i])
          /\ Len(calls[i].fetched) = 1
          /\ Answer(calls[i]) = Text(calls[i].fetched[1].outcome.val.body)
    /\ Answer(calls[1]) # Answer(calls[2])


\* The invocations other than i and j have not touched the registry cache.
OnlyDiscoveries(i, j) ==
    \A k \in DOMAIN calls \ {i, j} : ~Discovers(calls[k])

\* C20: two discoveries that were both served the same index page, in
\* whatever order their requests and the responses to their fetches came,
\* return equal registries, and the cache they leave is the one a single
\* discovery of that page leaves: the registry parsed from the page, and a
\* time of discovery.
C20_RedundantDiscovery ==
    \A i, j \in DOMAIN calls :
       (/\ i < j
        /\ IndexServed(calls[i]) /\ IndexServed(calls[j])
        /\ calls[i].fetched[1].outcome.val.anchors = calls[j].fetched[1].outcome.val.anchors)
       => /\ calls[i].links.some
          /\ calls[i].links = calls[j].links
          /\ \A k \in {i, j} :
                (calls[k].name = "discover_documentation_links") =>
                   /\ calls[k].pc = "done"
                   /\ Answer(calls[k]).v.links = calls[i].links.val
          /\ OnlyDiscoveries(i, j) =>
                /\ discoveredLinks = calls[i].links
                /\ lastDiscovery.some
                /\ lastDiscovery.val # 0

\* Two discoveries overlapped (the second, no forced refresh, began at the
\* same reading of the clock and yet had to fetch: the first had cached
\* nothing by then), both were served the page with the Acme anchor, and both
\* have answered.
C20_Witness ==
    /\ Len(calls) = 2
    /\ \A i \in 1..2 :
          /\ calls[i].name = "discover_documentation_links"
          /\ IndexServed(calls[i])
          /\ calls[i].fetched[1].outcome.val.anchors = << AcmeAnchor >>
          /\ calls[i].pc = "done"
    /\ calls[1].started = calls[2].started
    /\ ~Refreshes(calls[2])
    /\ Keys(discoveredLinks.val) = {"acme_v4", "latest_v4"}

-----------------------------------------------------------------------------
(* Forced refresh                                                            *)

\* The registry discoverDocumentationLinks makes of the outcome of the
\* invocation's own fetch of the index page.
OwnRegistry(c) ==
    IF c.fetched[1].outcome.val.kind = "ok"
    THEN site[c.fetched[1].outcome.val.anchors]
    ELSE buildLegacyLinks

\* C21: a discover invocation with refresh = true drops the cache and issues
\* a fetch of the index page whatever the age of the cached registry, and the
\* registry it returns is the one made of that fetch (the page as served, or
\* the legacy registry), not the one that was cached; a discover invocation
\* with refresh false or absent leaves the cache as it is and fetches exactly
\* when no registry younger than the time-to-live is cached.
C21_RefreshAlwaysFetches ==
    [][ \A i \in DOMAIN calls' :
          LET c == calls'[i] IN
          (c.server = "main" /\ c.name = "discover_documentation_links") =>
             /\ (i \notin DOMAIN calls /\ Refreshes(c)) =>
                   /\ c.pc = "index"
                   /\ c.fetched = << [url |-> baseUrl, method |-> "GET", outcome |-> None] >>
                   /\ discoveredLinks' = None
                   /\ lastDiscovery' = None
             /\ (Refreshes(c) /\ c.pc = "done") =>
                   /\ IndexFetched(c)
                   /\ c.links = Some(OwnRegistry(c))
                   /\ Answer(c).v.links = OwnRegistry(c)
             /\ (i \notin DOMAIN calls /\ ~Refreshes(c)) =>
                   /\ discoveredLinks' = discoveredLinks
                   /\ lastDiscovery' = lastDiscovery
                   /\ (c.fetched = <<>>) <=>
                         (discoveredLinks.some /\ lastDiscovery.some
                            /\ now - lastDiscovery.val < cacheTimeout)
      ]_vars

\* A registry was cached at time 1; a refresh that arrived 599999 ms later,
\* when that registry was still valid, has fetched the index page and has
\* answered with another registry.
C21_Witness ==
    /\ Len(calls) = 2
    /\ calls[1].name = "discover_documentation_links"
    /\ IndexServed(calls[1])
    /\ calls[1].pc = "done"
    /\ Answer(calls[1]).v.discoveredAt = 1
    /\ Refreshes(calls[2])
    /\ calls[2].started = cacheTimeout
    /\ calls[2].pc = "done"
    /\ IndexServed(calls[2])
    /\ Answer(calls[2]).v.links # Answer(calls[1]).v.links

-----------------------------------------------------------------------------
(* The two fetches of a comparison                                           *)

Compares(c) == c.name = "compare_documentation_versions"

\* The pages compareVersions of the server of c compares: latest, trunk.
ComparedUrls(c) ==
    IF c.server = "main" THEN << legacyDocUrls.latest, legacyDocUrls.trunk >>
    ELSE << G_docUrls.latest, G_docUrls.trunk >>

\* The URLs the invocation has issued a fetch of, in the order of issue.
Issued(c) == [k \in DOMAIN c.fetched |-> c.fetched[k].url]

\* The k-th fetch of the invocation has ended, with a body.
Succeeded(c, k) ==
    /\ k \in DOMAIN c.fetched
    /\ c.fetched[k].outcome.some
    /\ c.fetched[k].outcome.val.kind = "ok"

\* The invocation was answered with the JSON text of a comparison.
ComparisonData(c) == c.result.some /\ Answer(c).kind = "json"

\* The invocation was answered with the text of the error its handler caught.
ErrorAnswer(c) ==
    /\ c.result.some
    /\ c.caught.some
    /\ Answer(c) = Text("Error: " \o c.caught.val)

\* C22 as claimed: every compare invocation that has ended has fetched both
\* pages, and it was answered with a comparison exactly when both fetches
\* succeeded, with an error otherwise.
C22_AsClaimed ==
    \A i \in DOMAIN calls :
       LET c == calls[i] IN
       (Compares(c) /\ c.pc = "done") =>
          /\ Issued(c) = ComparedUrls(c)
          /\ ComparisonData(c) <=> (Succeeded(c, 1) /\ Succeeded(c, 2))
          /\ ~ComparisonData(c) => ErrorAnswer(c)

\* C22: a compare invocation is answered with a comparison only when it has
\* fetched the latest and the trunk page and both fetches have succeeded; when
\* a fetch has failed, or the request has no arguments, it is answered with an
\* error text and no comparison.  The main server issues the two fetches
\* together, as soon as the request has arguments; the globally installed
\* server issues the fetch of latest first and the fetch of trunk only once
\* latest is there, so a failure of latest leaves trunk unfetched; a request
\* without arguments fetches nothing.
C22_BothBeforeResult ==
    \A i \in DOMAIN calls :
       LET c == calls[i] IN
       Compares(c) =>
          /\ ComparisonData(c) <=>
                (c.pc = "done" /\ Issued(c) = ComparedUrls(c)
                   /\ Succeeded(c, 1) /\ Succeeded(c, 2))
          /\ (c.pc = "done" /\ ~ComparisonData(c)) => ErrorAnswer(c)
          /\ ~c.args.some => (c.pc = "done" /\ c.fetched = <<>>)
          /\ (c.args.some /\ c.server = "main") => Issued(c) = ComparedUrls(c)
          /\ (c.args.some /\ c.server = "global") =>
                Issued(c) = IF Succeeded(c, 1) THEN ComparedUrls(c)
                            ELSE << ComparedUrls(c)[1] >>

\* On the main server the latest page was served and the trunk page was not
\* found: the invocation has ended with the error text.
C22_Witness ==
    \E i \in DOMAIN calls :
       /\ Compares(calls[i])
       /\ calls[i].server = "main"
       /\ calls[i].pc = "done"
       /\ Succeeded(calls[i], 1)
       /\ calls[i].fetched[2].outcome = Some(HttpFailure)
       /\ Answer(calls[i]) = Text("Error: Comparison failed: Failed to fetch both versions")

-----------------------------------------------------------------------------
(* The entries processZipWithJQuery picks                                    *)

\* The invocation scanned the archive with processZipWithJQuery.
Scanned(c) == ZipLoaded(c) /\ Arg(c.args, "useJavaScript", TRUE)

\* The document environment of the invocation was created.
DomCreated(c) == Scanned(c) /\ c.dom.some

\* C23: when processZipWithJQuery scans the archive, the primary document is
\* the first entry, in archive order, that is not a directory and whose name
\* ends in .html, and the script put into the document is the first entry
\* whose name contains jquery and ends in .js; a later entry of either kind
\* replaces neither.
C23_FirstEntriesChosen ==
    \A i \in DOMAIN calls :
       LET c     == calls[i]
           files == ZipFiles(c)
       IN  DomCreated(c) =>
              /\ c.dom.val.elements = files[Min(HtmlEntries(files))].data.elements
              /\ c.dom.val.scripts = << files[Min(JQueryEntries(files))].data >>

-----------------------------------------------------------------------------
(* An archive without a script library                                       *)

\* The archive the invocation loaded has an HTML file and no script library.
HtmlWithoutScript(c) ==
    /\ ZipLoaded(c)
    /\ HtmlEntries(ZipFiles(c)) # {}
    /\ JQueryEntries(ZipFiles(c)) = {}

-----------------------------------------------------------------------------
(* The reveal step                                                           *)
(*                                                                           *)
(* The timer processZipWithJQuery sets is run by the event loop of the       *)
(* process: a timer that is due fires.  SpecSettle is Spec with that         *)
(* guarantee.                                                                *)

SpecSettle == Spec /\ WF_vars(SettleTimeout)

\* The invocation waits for its timer.
Settling(i) == i \in DOMAIN calls /\ calls[i].pc = "settle"

\* The invocation was answered with the serialized document, at or after the
\* time its timer was set for.
Revealed(i) ==
    /\ i \in DOMAIN calls
    /\ calls[i].pc = "done"
    /\ ~calls[i].caught.some
    /\ Answer(calls[i]).kind = "titled"
    /\ Answer(calls[i]).data.kind = "dom"
    /\ now >= calls[i].due

\* The toggle elements whose click handler works.
WorkingToggles(elements) ==
    { k \in DOMAIN elements :
        elements[k].cls = "toggleOperation" /\ elements[k].click = "toggles" }

\* C25: once the document has been built from the HTML and the script library,
\* the invocation is in the end answered with the serialized document, not
\* before the settle delay of 1000 ms has passed, whether or not the script
\* defined window.$ and whatever the click handlers raise; and the click on a
\* toggle whose handler raises does not keep the toggles after it from being
\* clicked: every toggle with a working handler has acted on the element
\* that follows it.
C25_RevealCompletes ==
    /\ \A i \in 1..MaxCalls : Settling(i) ~> Revealed(i)
    /\ [](\A i \in DOMAIN calls :
             LET c == calls[i] IN
             DomCreated(c) =>
                /\ c.due >= c.started + SettleDelay
                /\ (c.pc = "done") =>
                      /\ Revealed(i)
                      /\ Answer(c).data.scripts = c.dom.val.scripts
                      /\ Len(Answer(c).data.elements) = Len(c.dom.val.elements)
                /\ \A k \in DOMAIN c.dom.val.elements :
                      ClickToggles(c.dom.val.elements, 1)[k].hidden =
                         IF k - 1 \in WorkingToggles(c.dom.val.elements)
                         THEN ~c.dom.val.elements[k].hidden
                         ELSE c.dom.val.elements[k].hidden)

\* An invocation was answered with its document, in which a toggle whose
\* handler raises comes before a toggle whose handler works, and the latter
\* has acted.
C25_Witness ==
    \E i \in DOMAIN calls :
       /\ DomCreated(calls[i])
       /\ Revealed(i)
       /\ calls[i].dom.val.jquery
       /\ \E k, l \in DOMAIN calls[i].dom.val.elements :
             /\ k < l
             /\ calls[i].dom.val.elements[k].cls = "toggleOperation"
             /\ calls[i].dom.val.elements[k].click = "throws"
             /\ l \in WorkingToggles(calls[i].dom.val.elements)
             /\ ClickToggles(calls[i].dom.val.elements, 1)[l + 1].hidden
                   # calls[i].dom.val.elements[l + 1].hidden

-----------------------------------------------------------------------------
(* The two fields of the cache                                               *)

\* C26: in every reachable state of the main server the cached registry and
\* the time of its discovery are there together: discoveredLinks is null
\* exactly when lastDiscovery is null, whatever the order in which discover
\* (with and without refresh), enhanced get and the other tools are invoked
\* and answered.
C26_CacheFieldsTogether ==
    /\ discoveredLinks.some <=> lastDiscovery.some
    /\ \A i \in DOMAIN calls :
          (calls[i].server = "global") => (discoveredLinks = None /\ lastDiscovery = None)

\* A refresh has emptied the cache while another discovery was waiting for
\* the index page, and both have been answered since: the cache is filled.
C26_Witness ==
    /\ discoveredLinks.some
    /\ lastDiscovery.some
    /\ \E i, j \in DOMAIN calls :
          /\ i < j
          /\ Discovers(calls[i]) /\ IndexServed(calls[i]) /\ calls[i].pc # "index"
          /\ Refreshes(calls[j]) /\ IndexFailed(calls[j]) /\ calls[j].pc = "done"

-----------------------------------------------------------------------------
(* A failed discovery and the cache                                          *)

\* C27: a discovery whose fetch of the index page fails returns the legacy
\* registry and leaves both fields of the cache as they were; no entry of a
\* cached registry has discovered = false; and an invocation that enters
\* discovery after a failure fetches the index page again, unless a registry
\* younger than the time-to-live is cached.
C27_FailureLeavesCache ==
    [][ /\ \A i \in DOMAIN calls :
             (calls[i].pc = "index" /\ IndexFailed(calls'[i])) =>
                /\ discoveredLinks' = discoveredLinks
                /\ lastDiscovery' = lastDiscovery
                /\ calls'[i].links = Some(buildLegacyLinks)
        /\ discoveredLinks'.some =>
              /\ discoveredLinks'.val # buildLegacyLinks
              /\ \A k \in DOMAIN discoveredLinks'.val :
                    discoveredLinks'.val[k].val.discovered
        /\ \A i \in DOMAIN calls' :
             (/\ i \notin DOMAIN calls
              /\ Discovers(calls'[i])
              /\ \E j \in DOMAIN calls : IndexFailed(calls[j])
              /\ ~(discoveredLinks'.some /\ now - lastDiscovery'.val < cacheTimeout))
             => /\ calls'[i].pc = "index"
                /\ IndexFetches(calls'[i]) = {1}
      ]_vars

\* The discover tool was answered with the legacy registry at time 1; the
\* cache, empty before, is empty; an invocation that arrived later has issued
\* a fetch of the index page.
C27_Witness ==
    /\ Len(calls) = 2
    /\ calls[1].name = "discover_documentation_links"
    /\ IndexFailed(calls[1])
    /\ calls[1].pc = "done"
    /\ Answer(calls[1]).v.discoveredAt = 1
    /\ Answer(calls[1]).v.links = buildLegacyLinks
    /\ Discovers(calls[2])
    /\ calls[2].started > 1
    /\ IndexFetches(calls[2]) = {1}
    /\ discoveredLinks = None

-----------------------------------------------------------------------------
(* The lines the line-based search reports                                   *)

\* The lines of the document, by number, in which the query, taken as the
\* pattern the main server makes of it, has a match.
MatchingLines(doc, query) ==
    LET lines == split(doc)
        r     == Pattern(Compile(query).re, TRUE)
    IN  { i \in DOMAIN lines : Search(r, toLowerCase(lines[i]), 1).ok }

\* The line numbers of the matches findMatches returned, in their order.
ReportedLines == [k \in DOMAIN output.val.matches |-> output.val.matches[k].line]

\* C28: the line-based findMatches of the main server reports every line of
\* the document in which the query has a match, each once and in the order of
\* the lines, whatever the lines before it hold.
C28_EveryMatchingLineOnce ==
    (Searched /\ input.server = "main" /\ ~output.val.threw) =>
       ReportedLines = Ascending(MatchingLines(input.doc, input.query))

-----------------------------------------------------------------------------
(* The descriptor the enhanced documentation downloads                       *)

RequestedVersion(c) == Arg(c.args, "version", "latest")

RequestedApiVersion(c) == Arg(c.args, "apiVersion", "v4")

\* The descriptor is of the requested API version and, when a release was
\* asked for by name, of that release.
AsRequested(c, link) ==
    /\ link.apiVersion = RequestedApiVersion(c)
    /\ RequestedVersion(c) \notin {"latest", "trunk"} =>
          toLowerCase(link.release) = toLowerCase(RequestedVersion(c))

\* C29: the descriptor an enhanced invocation downloads is of the requested
\* apiVersion (and of the requested release, when one is named), so that the
\* heading of the answer names the release and API version of the content;
\* when the registry has no such descriptor the invocation issues no fetch of
\* a ZIP and is answered with the not-found error.
C29_TargetIsTheRequested ==
    \A i \in DOMAIN calls :
       LET c == calls[i] IN
       (Enhanced(c) /\ c.links.some) =>
          /\ c.target.some => AsRequested(c, c.target.val)
          /\ (\A k \in DOMAIN c.links.val : ~AsRequested(c, c.links.val[k].val)) =>
                /\ c.target = None
                /\ \A k \in DOMAIN c.fetched : c.fetched[k].url = baseUrl
                /\ EnhancedError(c)

-----------------------------------------------------------------------------
(* The loops of the two searches                                             *)

\* The loop of findMatches of the globally installed server has ended within
\* as many turns as the document has positions, and 50 more.
G_LoopEnds(html, query) ==
    LET regex == Compile(G_escape(query)) IN
    regex.ok =>
       G_FindLoop(html, query, Pattern(regex.re, TRUE), Subject(html, TRUE),
                  [done |-> FALSE, lastIndex |-> 0, matches |-> <<>>],
                  Doublings(Len(html) + MaxMatches + 1)).done

\* Where the matches are: the position in the document, or the line number.
Positions ==
    [k \in DOMAIN output.val.matches |->
        IF input.server = "global" THEN output.val.matches[k].position
        ELSE output.val.matches[k].line]

\* C30: findMatches ends for every document and every query, the empty query
\* and the queries whose pattern matches the empty text included, and each
\* match it returns lies after the one before it.
C30_EndsWithIncreasingPositions ==
    Searched =>
       /\ input.server = "global" => G_LoopEnds(input.doc, input.query)
       /\ \A k \in DOMAIN Positions : k > 1 => Positions[k - 1] < Positions[k]

=============================================================================
